---- MODULE Spec2Model ----
(***************************************************************************)
(* Tag Suggestion Engine of tnn-ai: the continuation-token codec, the      *)
(* fingerprint key, the tag index (TagSuggester) and the cached, paginated *)
(* delivery of candidate pools (TagService.suggestTags).                   *)
(*                                                                         *)
(* Strings are sequences of one-character strings.  Scores are integers in *)
(* units of 1/10000 (0.2 is 2000).  None is Python's None.                 *)
(***************************************************************************)
EXTENDS Integers, Sequences, FiniteSets, TLC

None == "None"

(***************************************************************************)
(* Bounds of the model.                                                    *)
(***************************************************************************)
MaxKeyLen == 2
MaxPos == 2

(***************************************************************************)
(* Generic sequence helpers.                                               *)
(***************************************************************************)
Range(s) == {s[i] : i \in DOMAIN s}

\* The concatenation of a sequence of sequences (split in halves to keep the
\* evaluation shallow).
RECURSIVE Concat(_)
Concat(ss) ==
  IF ss = <<>> THEN <<>>
  ELSE IF Len(ss) = 1 THEN ss[1]
  ELSE LET h == Len(ss) \div 2
       IN  Concat(SubSeq(ss, 1, h)) \o Concat(SubSeq(ss, h + 1, Len(ss)))

SeqsUpTo(S, n) == UNION {[1..m -> S] : m \in 0..n}

Min2(a, b) == IF a <= b THEN a ELSE b
Max2(a, b) == IF a >= b THEN a ELSE b

\* Python's s[a:b] on a sequence (negative indices count from the end).
PySlice(s, a, b) ==
  LET n  == Len(s)
      lo == IF a < 0 THEN Max2(0, a + n) ELSE Min2(a, n)
      hi == IF b < 0 THEN Max2(0, b + n) ELSE Min2(b, n)
  IN  IF hi <= lo THEN <<>> ELSE SubSeq(s, lo + 1, hi)

(***************************************************************************)
(* Characters and bytes.  AsciiTable lists the printable ASCII characters  *)
(* from code 32 to 126; a newline is code 10; any other character is not   *)
(* ASCII and is written by json.dumps as a \uXXXX escape.                  *)
(***************************************************************************)
AsciiTable ==
  << " ", "!", "\"", "#", "$", "%", "&", "'", "(", ")", "*", "+", ",", "-", ".", "/",
     "0", "1", "2", "3", "4", "5", "6", "7", "8", "9", ":", ";", "<", "=", ">", "?",
     "@", "A", "B", "C", "D", "E", "F", "G", "H", "I", "J", "K", "L", "M", "N", "O",
     "P", "Q", "R", "S", "T", "U", "V", "W", "X", "Y", "Z", "[", "\\", "]", "^", "_",
     "grave", "a", "b", "c", "d", "e", "f", "g", "h", "i", "j", "k", "l", "m", "n", "o",
     "p", "q", "r", "s", "t", "u", "v", "w", "x", "y", "z", "{", "|", "}", "~" >>

Newline == "\n"
EAcute == "e-acute"

AsciiChars == Range(AsciiTable) \cup {Newline}

Ord == [c \in AsciiChars |->
          IF c = Newline THEN 10
          ELSE 31 + (CHOOSE i \in DOMAIN AsciiTable : AsciiTable[i] = c)]

Chr(b) == IF b = 10 THEN Newline
          ELSE IF b >= 32 /\ b <= 126 THEN AsciiTable[b - 31]
          ELSE None

Digits == <<"0", "1", "2", "3", "4", "5", "6", "7", "8", "9">>
IsDigit(c) == c \in Range(Digits)
DigitVal(c) == (CHOOSE i \in DOMAIN Digits : Digits[i] = c) - 1

\* str(n) for a natural number, and for an integer.
RECURSIVE NatStr(_)
NatStr(n) == IF n < 10 THEN <<Digits[n + 1]>>
             ELSE NatStr(n \div 10) \o <<Digits[(n % 10) + 1]>>

IntStr(n) == IF n < 0 THEN <<"-">> \o NatStr(-n) ELSE NatStr(n)

RECURSIVE DigitsVal(_, _)
DigitsVal(ds, acc) ==
  IF ds = <<>> THEN acc ELSE DigitsVal(Tail(ds), 10 * acc + DigitVal(Head(ds)))

(***************************************************************************)
(* json.dumps({"k": key, "p": pos}) with ensure_ascii (the default): the   *)
(* quote and the backslash are escaped, a newline is written \n and a      *)
(* character outside ASCII as a \uXXXX escape.                             *)
(***************************************************************************)
\* A string writer that leaves the quote unescaped.
JsonEscapeCharNoQuote(c) ==
  IF c = "\\" THEN <<"\\", "\\">>
  ELSE IF c = Newline THEN <<"\\", "n">>
  ELSE IF c = EAcute THEN <<"\\", "u", "0", "0", "e", "9">>
  ELSE <<c>>

JsonEscapeChar(c) ==
  IF c = "\"" THEN <<"\\", "\"">>
  ELSE IF c = "\\" THEN <<"\\", "\\">>
  ELSE IF c = Newline THEN <<"\\", "n">>
  ELSE IF c = EAcute THEN <<"\\", "u", "0", "0", "e", "9">>
  ELSE <<c>>

JsonString(s) ==
  <<"\"">> \o Concat([i \in DOMAIN s |-> JsonEscapeChar(s[i])]) \o <<"\"">>

JsonDumpsCursor(key, pos) ==
  <<"{">> \o JsonString(<<"k">>) \o <<":", " ">> \o JsonString(key) \o <<",", " ">>
    \o JsonString(<<"p">>) \o <<":", " ">> \o IntStr(pos) \o <<"}">>

(***************************************************************************)
(* json.loads, for objects whose values are strings or integers (the       *)
(* documents a continuation token can hold); any other text is a parse     *)
(* error.  A parse result is [ok, v, next].                                *)
(***************************************************************************)
ParseFail == [ok |-> FALSE, v |-> None, next |-> 0]

JsonWs == {" ", Newline}

RECURSIVE SkipWs(_, _)
SkipWs(s, i) == IF i <= Len(s) /\ s[i] \in JsonWs THEN SkipWs(s, i + 1) ELSE i

RECURSIVE ParseStrBody(_, _, _)
ParseStrBody(s, i, acc) ==
  IF i > Len(s) THEN ParseFail
  ELSE IF s[i] = "\"" THEN [ok |-> TRUE, v |-> acc, next |-> i + 1]
  ELSE IF s[i] = "\\" THEN
    IF i + 1 > Len(s) THEN ParseFail
    ELSE IF s[i + 1] = "\"" THEN ParseStrBody(s, i + 2, Append(acc, "\""))
    ELSE IF s[i + 1] = "\\" THEN ParseStrBody(s, i + 2, Append(acc, "\\"))
    ELSE IF s[i + 1] = "n" THEN ParseStrBody(s, i + 2, Append(acc, Newline))
    ELSE IF s[i + 1] = "u" /\ i + 5 <= Len(s)
            /\ SubSeq(s, i + 2, i + 5) = <<"0", "0", "e", "9">>
         THEN ParseStrBody(s, i + 6, Append(acc, EAcute))
    ELSE ParseFail
  ELSE IF s[i] = Newline \/ s[i] = None THEN ParseFail
  ELSE ParseStrBody(s, i + 1, Append(acc, s[i]))

ParseJsonString(s, i) ==
  IF i <= Len(s) /\ s[i] = "\"" THEN ParseStrBody(s, i + 1, <<>>) ELSE ParseFail

RECURSIVE DigitRunEnd(_, _)
DigitRunEnd(s, i) == IF i <= Len(s) /\ IsDigit(s[i]) THEN DigitRunEnd(s, i + 1) ELSE i

\* The digits s[start .. stop - 1] as a JSON integer.
ParseJsonDigits(s, neg, start, stop) ==
  IF stop = start THEN ParseFail
  ELSE IF stop - start > 1 /\ s[start] = "0" THEN ParseFail
  ELSE IF stop <= Len(s) /\ s[stop] \in {".", "e", "E"} THEN ParseFail
  ELSE [ok |-> TRUE,
        v |-> (IF neg THEN 0 - DigitsVal(SubSeq(s, start, stop - 1), 0)
               ELSE DigitsVal(SubSeq(s, start, stop - 1), 0)),
        next |-> stop]

ParseJsonSigned(s, neg, start) == ParseJsonDigits(s, neg, start, DigitRunEnd(s, start))

ParseJsonInt(s, i) ==
  IF i <= Len(s) /\ s[i] = "-" THEN ParseJsonSigned(s, TRUE, i + 1)
  ELSE ParseJsonSigned(s, FALSE, i)

\* A parsed value with its type.
ParseTagged(r, t) == IF r.ok THEN [r EXCEPT !.v = [t |-> t, v |-> r.v]] ELSE ParseFail

ParseJsonValue(s, i) ==
  IF i > Len(s) THEN ParseFail
  ELSE IF s[i] = "\"" THEN ParseTagged(ParseJsonString(s, i), "str")
  ELSE IF s[i] = "-" \/ IsDigit(s[i]) THEN ParseTagged(ParseJsonInt(s, i), "int")
  ELSE ParseFail

\* The members of an object after its opening brace; d is the sequence of
\* <<name, value>> pairs read so far.  A member is read in steps: its name
\* k, the colon at c, its value v, and what follows at e.
RECURSIVE ParseMembers(_, _, _)

ParseMemberNext(s, d, e) ==
  IF e > Len(s) THEN ParseFail
  ELSE IF s[e] = "," THEN ParseMembers(s, e + 1, d)
  ELSE IF s[e] = "}" THEN [ok |-> TRUE, v |-> d, next |-> e + 1]
  ELSE ParseFail

ParseMemberEnd(s, d, k, v) ==
  IF ~v.ok THEN ParseFail
  ELSE ParseMemberNext(s, Append(d, <<k.v, v.v>>), SkipWs(s, v.next))

ParseMemberValue(s, d, k, c) ==
  IF c > Len(s) \/ s[c] # ":" THEN ParseFail
  ELSE ParseMemberEnd(s, d, k, ParseJsonValue(s, SkipWs(s, c + 1)))

ParseMemberColon(s, d, k) ==
  IF ~k.ok THEN ParseFail ELSE ParseMemberValue(s, d, k, SkipWs(s, k.next))

ParseMembers(s, i, d) == ParseMemberColon(s, d, ParseJsonString(s, SkipWs(s, i)))

\* The document ends after the object.
JsonLoadsEnd(s, r) == IF r.ok /\ SkipWs(s, r.next) = Len(s) + 1 THEN r ELSE ParseFail

JsonLoadsBody(s, j) ==
  IF j <= Len(s) /\ s[j] = "}"
  THEN JsonLoadsEnd(s, [ok |-> TRUE, v |-> <<>>, next |-> j + 1])
  ELSE JsonLoadsEnd(s, ParseMembers(s, j, <<>>))

JsonLoadsAt(s, i) ==
  IF i > Len(s) \/ s[i] # "{" THEN ParseFail ELSE JsonLoadsBody(s, SkipWs(s, i + 1))

JsonLoadsObject(s) == JsonLoadsAt(s, SkipWs(s, 1))

\* d[name] of a parsed object: the last member of that name, None when absent.
DictHas(d, name) == \E i \in DOMAIN d : d[i][1] = name
DictGet(d, name) ==
  d[CHOOSE i \in DOMAIN d : d[i][1] = name /\ \A j \in DOMAIN d : d[j][1] = name => j <= i][2]

(***************************************************************************)
(* base64.urlsafe_b64encode / urlsafe_b64decode over bytes.                *)
(***************************************************************************)
B64Alphabet ==
  << "A", "B", "C", "D", "E", "F", "G", "H", "I", "J", "K", "L", "M", "N", "O", "P",
     "Q", "R", "S", "T", "U", "V", "W", "X", "Y", "Z", "a", "b", "c", "d", "e", "f",
     "g", "h", "i", "j", "k", "l", "m", "n", "o", "p", "q", "r", "s", "t", "u", "v",
     "w", "x", "y", "z", "0", "1", "2", "3", "4", "5", "6", "7", "8", "9", "-", "_" >>

B64Pad == "="

\* The decoder's table: the URL-safe characters are translated to + and /,
\* which are accepted as well.
B64Value == [c \in Range(B64Alphabet) \cup {"+", "/"} |->
               IF c = "+" THEN 62 ELSE IF c = "/" THEN 63
               ELSE (CHOOSE i \in DOMAIN B64Alphabet : B64Alphabet[i] = c) - 1]

\* str.encode() of a text of ASCII characters.
EncodeAscii(s) == [i \in DOMAIN s |-> Ord[s[i]]] \o <<>>

\* bytes.decode(): a byte that is no character of the model decodes to None,
\* which no JSON document may hold.
DecodeBytes(bs) == [i \in DOMAIN bs |-> Chr(bs[i])] \o <<>>

\* Three bytes give four characters; a last group of one or two bytes is
\* padded with =.
B64EncodeBytes(bs) ==
  LET n == Len(bs)
      byte(k) == IF k <= n THEN bs[k] ELSE 0
      quadChar(g, q) ==
        LET b1 == byte(3 * g + 1)
            b2 == byte(3 * g + 2)
            b3 == byte(3 * g + 3)
        IN  IF q = 0 THEN B64Alphabet[(b1 \div 4) + 1]
            ELSE IF q = 1 THEN B64Alphabet[((b1 % 4) * 16 + (b2 \div 16)) + 1]
            ELSE IF q = 2 THEN (IF 3 * g + 2 > n THEN B64Pad
                                ELSE B64Alphabet[((b2 % 16) * 4 + (b3 \div 64)) + 1])
            ELSE (IF 3 * g + 3 > n THEN B64Pad ELSE B64Alphabet[(b3 % 64) + 1])
  IN  [j \in 1..(4 * ((n + 2) \div 3)) |-> quadChar((j - 1) \div 4, (j - 1) % 4)] \o <<>>

\* binascii.a2b_base64 (not strict): characters outside the alphabet are
\* skipped; a run of padding that completes the current quad ends the data,
\* any other padding is skipped; data that stops inside a quad is an error
\* (ok is FALSE).
\* B64Sextets reads the data characters up to the padding that ends the data.
B64NextPad(f, i) ==
  IF \E j \in i..Len(f) : f[j] = B64Pad
  THEN CHOOSE j \in i..Len(f) : f[j] = B64Pad /\ \A h \in i..(j - 1) : f[h] # B64Pad
  ELSE Len(f) + 1

B64PadRun(f, j) ==
  CHOOSE r \in 1..(Len(f) - j + 1) :
    /\ \A h \in j..(j + r - 1) : f[h] = B64Pad
    /\ (j + r > Len(f) \/ f[j + r] # B64Pad)

RECURSIVE B64Sextets(_, _, _)

B64AfterPad(f, j, acc, run) ==
  IF Len(acc) % 4 >= 2 /\ (Len(acc) % 4) + run >= 4 THEN [vs |-> acc, ended |-> TRUE]
  ELSE B64Sextets(f, j + run, acc)

B64UpToPad(f, i, acc, j) ==
  IF j > Len(f) THEN [vs |-> acc \o SubSeq(f, i, j - 1), ended |-> FALSE]
  ELSE B64AfterPad(f, j, acc \o SubSeq(f, i, j - 1), B64PadRun(f, j))

B64Sextets(f, i, acc) == B64UpToPad(f, i, acc, B64NextPad(f, i))

\* The number of bytes that m data characters hold.
B64ByteCount(m) ==
  3 * (m \div 4) + (IF m % 4 = 2 THEN 1 ELSE IF m % 4 = 3 THEN 2 ELSE 0)

\* Byte j of the data characters vs.
B64ByteAt(vs, j) ==
  LET base == 4 * ((j - 1) \div 3)
  IN  IF (j - 1) % 3 = 0
      THEN B64Value[vs[base + 1]] * 4 + (B64Value[vs[base + 2]] \div 16)
      ELSE IF (j - 1) % 3 = 1
      THEN (B64Value[vs[base + 2]] % 16) * 16 + (B64Value[vs[base + 3]] \div 4)
      ELSE (B64Value[vs[base + 3]] % 4) * 64 + B64Value[vs[base + 4]]

B64Assemble(d) ==
  IF ~d.ended /\ Len(d.vs) % 4 # 0 THEN [ok |-> FALSE, v |-> <<>>]
  ELSE [ok |-> TRUE,
        v |-> [j \in 1..B64ByteCount(Len(d.vs)) |-> B64ByteAt(d.vs, j)] \o <<>>]

B64DecodeBytes(cs) ==
  B64Assemble(B64Sextets(SelectSeq(cs, LAMBDA c : c = B64Pad \/ c \in DOMAIN B64Value),
                         1, <<>>))

(***************************************************************************)
(* The continuation token.                                                 *)
(***************************************************************************)
\* An encoder that writes the key with a string writer that does not escape
\* quotes.
EncodeCursorUnescaped(key, pos) ==
  B64EncodeBytes(EncodeAscii(
    <<"{">> \o JsonString(<<"k">>) \o <<":", " ", "\"">>
      \o Concat([i \in DOMAIN key |-> JsonEscapeCharNoQuote(key[i])])
      \o <<"\"", ",", " ">> \o JsonString(<<"p">>) \o <<":", " ">> \o IntStr(pos) \o <<"}">>))

_encode_cursor(key, pos) == B64EncodeBytes(EncodeAscii(JsonDumpsCursor(key, pos)))

\* int(x) of a parsed JSON value: an integer, or a string holding one.
PyIntOfString(str, r) ==
  IF str # <<>> /\ r.ok /\ r.next = Len(str) + 1 THEN [ok |-> TRUE, v |-> r.v]
  ELSE [ok |-> FALSE, v |-> 0]

PyInt(v) ==
  IF v.t = "int" THEN [ok |-> TRUE, v |-> v.v]
  ELSE PyIntOfString(v.v, ParseJsonInt(v.v, 1))

\* The result is the pair <<key, position>>, or NoCursor (Python's None) when
\* any step raises.
NoCursor == <<>>

\* (d["k"], int(d["p"]))
DecodeCursorPair(k, p) == IF ~p.ok THEN NoCursor ELSE <<k.v, p.v>>

DecodeCursorDict(d) ==
  IF ~d.ok THEN NoCursor
  ELSE IF ~DictHas(d.v, <<"k">>) \/ ~DictHas(d.v, <<"p">>) THEN NoCursor
  ELSE DecodeCursorPair(DictGet(d.v, <<"k">>), PyInt(DictGet(d.v, <<"p">>)))

DecodeCursorBytes(bs) ==
  IF ~bs.ok THEN NoCursor ELSE DecodeCursorDict(JsonLoadsObject(DecodeBytes(bs.v)))

_decode_cursor(cur) == DecodeCursorBytes(B64DecodeBytes(cur))

(***************************************************************************)
(* Texts.  A text is a sequence of lexemes: words, blanks, punctuation,    *)
(* markup and URLs.  The regular expressions of the code act on lexemes.   *)
(***************************************************************************)
Blank == " "
Nbsp == "nbsp"
Blanks == {Blank, Nbsp}
Puncts == {"!", ":", "-"}
Markups == {"<b>"}
Urls == {"http://t.co/tech"}

\* unidecode(): transliteration to ASCII.
Unidecode(x) ==
  IF x = "caf-e-acute" THEN "cafe" ELSE IF x = Nbsp THEN Blank ELSE x

\* str.lower()
Lower(x) ==
  IF x = "Sports" THEN "sports"
  ELSE IF x = "Technology" THEN "technology"
  ELSE IF x = "Gadgets" THEN "gadgets"
  ELSE IF x = "News" THEN "news"
  ELSE x

\* re.sub(r"\s+", " ", t).strip(): runs of blanks become one blank, and the
\* blanks at both ends are dropped.
CollapseBlanks(t) ==
  LET kept == {i \in DOMAIN t :
                 \/ t[i] \notin Blanks
                 \/ /\ i > 1 /\ t[i - 1] \notin Blanks
                    /\ \E j \in (i + 1)..Len(t) : t[j] \notin Blanks}
      pos(n) == CHOOSE i \in kept : Cardinality({j \in kept : j < i}) = n - 1
  IN  [n \in 1..Cardinality(kept) |-> IF t[pos(n)] \in Blanks THEN Blank ELSE t[pos(n)]] \o <<>>

\* tags.py _canonicalize_text
_canonicalize_text(text) ==
  IF text = <<>> THEN <<>>
  ELSE CollapseBlanks([i \in DOMAIN text |-> IF text[i] = Nbsp THEN Blank ELSE text[i]])

\* helpers.py clean_html: markup is removed.
clean_html(text) == SelectSeq(text, LAMBDA x : x \notin Markups)

\* TagSuggester._preprocess_text (NORMALIZE_ARABIC off): transliterate, turn
\* URLs, markup and punctuation into blanks, collapse the blanks, clean_html.
_preprocess_text(text) ==
  LET translit == [i \in DOMAIN text |-> Unidecode(text[i])] \o <<>>
      blanked  == [i \in DOMAIN translit |->
                     IF translit[i] \in Urls \cup Markups \cup Puncts THEN Blank
                     ELSE translit[i]]
  IN  clean_html(CollapseBlanks(blanked))

\* The tokens [\p{L}\p{Nd}]{3,} finds in one lexeme, lower-cased.
LexemeTokens(x) ==
  IF x \in Blanks \cup Puncts \cup Markups \cup {"--", "is"} THEN {}
  ELSE IF x = "slug:" THEN {"slug"}
  ELSE IF x = "url:" THEN {"url"}
  ELSE IF x = "query:" THEN {"query"}
  ELSE IF x = "passage:" THEN {"passage"}
  ELSE IF x = "http://t.co/tech" THEN {"http", "tech"}
  ELSE {Lower(x)}

Tokens(text) == UNION {LexemeTokens(text[i]) : i \in DOMAIN text}

TOP_N == 5

\* helpers.py keyword_overlap_reason: the shared terms (at most top_n of
\* them, in no particular order), or the empty set for the generic reason
\* "Semantic similarity to tag description".
keyword_overlap_reason(text, tag_text) ==
  LET inter == Tokens(text) \cap Tokens(tag_text)
  IN  IF Cardinality(inter) <= TOP_N THEN inter
      ELSE CHOOSE sub \in SUBSET inter : Cardinality(sub) = TOP_N

(***************************************************************************)
(* The catalog source (a CSV file) and its rows.                           *)
(***************************************************************************)
Row(name, slug, url) == [name |-> name, slug |-> slug, url |-> url, description |-> ""]

RowSports == Row("Sports", "sports", "")
RowTech == Row("Technology", " tech ", "http://t.co/tech")
RowGadgets == Row("Gadgets", "gadgets", "")
RowNoSlug == Row("News", " ", "")

CatalogA == <<RowSports, RowTech>>
CatalogB == <<RowGadgets, RowNoSlug, RowTech, RowSports>>
Catalogs == {CatalogA, CatalogB}

\* str.strip() of a cell.
Strip(x) == IF x = " " THEN "" ELSE IF x = " tech " THEN "tech" ELSE x

(***************************************************************************)
(* The embedding model (SentenceTransformer.encode), a deterministic       *)
(* function of the model and the text: here the vector of the text's first *)
(* content word.  Vectors are tuples of integers; a unit vector has length *)
(* UnitLen.  The model whose name holds "e5" has one dimension more.       *)
(***************************************************************************)
UnitLen == 2 * 5

ModelMini == <<"m", "i", "n", "i">>
ModelE5 == <<"E", "5", "s">>
Models == {ModelMini, ModelE5}

\* "e5" in model_name.lower()
IsE5(model) ==
  \E i \in 1..(Len(model) - 1) : model[i] \in {"e", "E"} /\ model[i + 1] = "5"

ContentWords(text) ==
  SelectSeq(text, LAMBDA x : LexemeTokens(x) # {} /\ x \notin {"query:", "passage:"})

WordVector(w) ==
  IF Lower(w) \in {"sports"} THEN <<0, 20>>
  ELSE IF Lower(w) \in {"technology", "tech"} THEN <<16, 12>>
  ELSE IF Lower(w) \in {"gadgets"} THEN <<16, -12>>
  ELSE IF Lower(w) \in {"news"} THEN <<12, 16>>
  ELSE IF Lower(w) \in {"chip"} THEN <<30, 0>>
  ELSE IF Lower(w) \in {"match"} THEN <<-12, 16>>
  ELSE <<0, 0>>

EmbedOne(model, text) ==
  LET ws == ContentWords(text)
      v  == IF ws = <<>> THEN <<0, -20>> ELSE WordVector(ws[1])
  IN  IF IsE5(model) THEN <<0>> \o v ELSE v

\* TagSuggester._embed_texts: one vector per text, in order.
_embed_texts(model, texts) == [i \in DOMAIN texts |-> EmbedOne(model, texts[i])] \o <<>>

Dot(a, b) ==
  LET RECURSIVE sum(_)
      sum(i) == IF i = 0 THEN 0 ELSE a[i] * b[i] + sum(i - 1)
  IN  sum(Len(a))

MaxNorm == 40

\* The Euclidean norm (the vectors of the model have integer norms).
Norm(v) == CHOOSE n \in 0..MaxNorm : n * n = Dot(v, v)

\* _normalize_L2_inplace / faiss.normalize_L2: each row is divided by its
\* norm, a zero row is left as it is.
NormalizeRow(v) ==
  LET n == IF Norm(v) = 0 THEN 1 ELSE Norm(v)
  IN  [i \in DOMAIN v |-> (v[i] * UnitLen) \div n] \o <<>>

_normalize_L2_inplace(X) == [i \in DOMAIN X |-> NormalizeRow(X[i])] \o <<>>

(***************************************************************************)
(* Program constants (scores in units of 1/10000).                         *)
(***************************************************************************)
ScoreUnit == 100 * 100
TOPK_CANDIDATES == 100
CACHE_TTL_SECONDS == 300
SHORTLIST_CAP == 100
WIDEN_OFFSET == 1500
RERANK_BELOW == 6000
ALPHA_TENTHS == 8
OVERLAP_CAP == 5000
OVERLAP_PER_TERM == 1000

NoneStr == "None"

(***************************************************************************)
(* The similarity index: NumpyIPIndex (or faiss.IndexFlatIP).              *)
(***************************************************************************)
NoIndex == [none |-> TRUE, dim |-> 0, X |-> <<>>]
NoEmbeddings == [none |-> TRUE, X |-> <<>>]

\* The inner product of two vectors of length UnitLen, as a score.
InnerProduct(q, x) == Dot(q, x) * (ScoreUnit \div (UnitLen * UnitLen))

\* Which of two entries of equal score comes first is not fixed by
\* argpartition / argsort; tie names the order the build at hand produces.
TieBreaks == {"catalog", "reverse"}

RanksBefore(S, i, j, tie) ==
  \/ S[i] > S[j]
  \/ S[i] = S[j] /\ (IF tie = "catalog" THEN i < j ELSE i > j)

\* NumpyIPIndex.search for one query: the k best rows as <<score, row>>,
\* best first (rows are numbered from 1).  A query of another dimension
\* raises.
NumpyIPIndex_search(index, qv, k, tie) ==
  IF index.none \/ Len(qv) # index.dim THEN [raised |-> TRUE, hits |-> <<>>]
  ELSE
    LET n  == Len(index.X)
        S  == [i \in 1..n |-> InnerProduct(qv, index.X[i])] \o <<>>
        kk == Min2(k, n)
        at(p) == CHOOSE i \in 1..n :
                   Cardinality({j \in 1..n : RanksBefore(S, j, i, tie)}) = p - 1
    IN  [raised |-> FALSE, hits |-> [p \in 1..kk |-> <<S[at(p)], at(p)>>] \o <<>>]

(***************************************************************************)
(* TagSuggester: the in-memory snapshot and the persisted one.             *)
(***************************************************************************)
TagRow(r) == [name |-> r.name, slug |-> r.slug,
              url |-> (IF r.url = "" THEN NoneStr ELSE r.url), description |-> ""]

Dash == <<Blank, "--", Blank>>

\* TagSuggester._render_tag_text
_render_tag_text(model, t) ==
  LET parts == <<t.name>>
                 \o (IF t.description # "" THEN Dash \o <<t.description>> ELSE <<>>)
                 \o (IF t.slug # "" THEN Dash \o <<"slug:", t.slug>> ELSE <<>>)
                 \o (IF t.url # NoneStr /\ t.url # "" THEN Dash \o <<"url:", t.url>> ELSE <<>>)
  IN  IF IsE5(model) THEN <<"passage:", Blank>> \o parts ELSE parts

\* TagSuggester.__init__
NewSuggester(settings) ==
  [model_name |-> settings.EMBEDDING_MODEL, cross_encoder |-> FALSE,
   tags |-> <<>>, tag_texts |-> <<>>, embeddings |-> NoEmbeddings, index |-> NoIndex]

\* TagSuggester._load_models: the cross-encoder is loaded only when the
\* server default asks for it, and stays None when loading it fails.
_load_models(mem, settings) ==
  [mem EXCEPT !.cross_encoder =
     mem.cross_encoder \/ (settings.USE_CROSS_ENCODER /\ settings.ce_loadable)]

NoEmbFile == [exists |-> FALSE, stale |-> FALSE, none |-> TRUE, X |-> <<>>]
NoMetaFile == [exists |-> FALSE, stale |-> FALSE, parses |-> FALSE, tags |-> <<>>,
               tag_texts |-> <<>>, model |-> NoneStr, dim |-> 0]
EmptyDisk == [emb |-> NoEmbFile, meta |-> NoMetaFile]

\* A validity test that does not compare the files' age with the catalog's.
CacheValidIgnoringAge(mem, disk, csv) ==
  /\ disk.emb.exists /\ disk.meta.exists
  /\ disk.meta.parses
  /\ disk.meta.model = mem.model_name

\* TagSuggester._cache_is_valid (the NumPy engine: two files).  stale says
\* that the file's modification time is before the catalog's.
_cache_is_valid(mem, disk, csv) ==
  /\ disk.emb.exists /\ disk.meta.exists
  /\ ~(csv.exists /\ (disk.emb.stale \/ disk.meta.stale))
  /\ disk.meta.parses
  /\ disk.meta.model = mem.model_name

\* TagSuggester._load_cache
_load_cache(mem, disk) ==
  IF disk.emb.none
  THEN [raised |-> TRUE,
        mem |-> [mem EXCEPT !.tags = disk.meta.tags, !.tag_texts = disk.meta.tag_texts]]
  ELSE [raised |-> FALSE,
        mem |-> [mem EXCEPT !.tags = disk.meta.tags, !.tag_texts = disk.meta.tag_texts,
                            !.embeddings = [none |-> FALSE, X |-> disk.emb.X],
                            !.index = IF mem.index.none
                                      THEN [none |-> FALSE, dim |-> Len(disk.emb.X[1]),
                                            X |-> disk.emb.X]
                                      ELSE mem.index]]

\* The rows that keep a name and a slug after stripping.
ValidRows(rows) ==
  SelectSeq([i \in DOMAIN rows |->
               [name |-> Strip(rows[i].name), slug |-> Strip(rows[i].slug),
                url |-> Strip(rows[i].url), description |-> Strip(rows[i].description)]],
            LAMBDA r : r.name # "" /\ r.slug # "")

\* The tags of the rows.
TagRows(rows) == [i \in DOMAIN rows |-> TagRow(rows[i])] \o <<>>

\* self.tags and self.tag_texts of a build.
RenderTags(mem, tags) ==
  [mem EXCEPT !.tags = tags,
              !.tag_texts = [i \in DOMAIN tags |->
                               _render_tag_text(mem.model_name, tags[i])] \o <<>>]

\* A build that keeps the index the suggester already has.
PublishKeepingIndex(m1, X) ==
  [m1 EXCEPT !.embeddings = [none |-> FALSE, X |-> X],
             !.index = IF m1.index.none
                       THEN [none |-> FALSE, dim |-> Len(X[1]), X |-> X]
                       ELSE m1.index]

\* The last statements of a build: self.embeddings, and a new index that
\* holds them.
PublishIndex(m1, X) ==
  [m1 EXCEPT !.embeddings = [none |-> FALSE, X |-> X],
             !.index = [none |-> FALSE, dim |-> Len(X[1]), X |-> X]]

\* The embedding step of a build; it raises when the embedding call fails
\* or there is nothing to embed.
BuildEmbeddings(m1, gw) ==
  IF ~gw \/ m1.tags = <<>> THEN m1
  ELSE PublishIndex(m1, _normalize_L2_inplace(_embed_texts(m1.model_name, m1.tag_texts)))

\* TagSuggester._build_from_csv.  Every exception is caught inside: the
\* fields assigned before it keep their new values.  gw says whether the
\* embedding call succeeds.
_build_from_csv(mem, csv, gw) ==
  IF ~csv.exists THEN mem
  ELSE BuildEmbeddings(RenderTags(mem, TagRows(ValidRows(csv.rows))), gw)

\* TagSuggester._save_cache: the embeddings file is written first; the
\* metadata file is opened (and so emptied) before its content is computed,
\* which raises when there are no embeddings.
_save_cache(mem, disk) ==
  LET emb == [exists |-> TRUE, stale |-> FALSE, none |-> mem.embeddings.none,
              X |-> mem.embeddings.X]
  IN  IF mem.embeddings.none
      THEN [raised |-> TRUE,
            disk |-> [emb |-> emb, meta |-> [NoMetaFile EXCEPT !.exists = TRUE]]]
      ELSE [raised |-> FALSE,
            disk |-> [emb |-> emb,
                      meta |-> [exists |-> TRUE, stale |-> FALSE, parses |-> TRUE,
                                tags |-> mem.tags, tag_texts |-> mem.tag_texts,
                                model |-> mem.model_name,
                                dim |-> Len(mem.embeddings.X[1])]]]

\* TagSuggester.load: the result is [raised, mem, disk].
LoadedFromCache(disk, l) == [raised |-> l.raised, mem |-> l.mem, disk |-> disk]

BuiltAndSaved(built, saved) == [raised |-> saved.raised, mem |-> built, disk |-> saved.disk]

BuildAndSave(built, disk) == BuiltAndSaved(built, _save_cache(built, disk))

LoadWithModels(mem, disk, csv, force_rebuild, gw) ==
  IF ~force_rebuild /\ _cache_is_valid(mem, disk, csv)
  THEN LoadedFromCache(disk, _load_cache(mem, disk))
  ELSE BuildAndSave(_build_from_csv(mem, csv, gw), disk)

load(mem0, disk, csv, settings, force_rebuild, gw) ==
  LoadWithModels(_load_models(mem0, settings), disk, csv, force_rebuild, gw)

\* TagSuggester.reload
reload(mem, disk, csv, settings, gw) == load(mem, disk, csv, settings, TRUE, gw)

(***************************************************************************)
(* TagSuggester.suggest: the resolver.                                     *)
(***************************************************************************)
\* TagSuggester._hybrid_score: 0.8 * semantic + 0.2 * min(0.5, terms / 10).
_hybrid_score(text, tag_text, semantic_score) ==
  LET terms   == Cardinality(keyword_overlap_reason(text, tag_text))
      overlap == IF terms > 0 THEN Min2(OVERLAP_CAP, terms * OVERLAP_PER_TERM) ELSE 0
  IN  (ALPHA_TENTHS * semantic_score + (10 - ALPHA_TENTHS) * overlap) \div 10

\* TagSuggester._item_text
_item_text(item) ==
  <<item.name>> \o Dash \o <<"slug:", item.slug>> \o Dash
    \o <<"url:">> \o (IF item.url = NoneStr THEN <<>> ELSE <<item.url>>)

\* CrossEncoder.predict for one pair: a deterministic relevance score.
CrossEncoderPredict(query_text, item_text) ==
  LET shared == Cardinality(Tokens(query_text) \cap Tokens(item_text))
  IN  IF "sports" \in Tokens(item_text) THEN 7000 + shared
      ELSE 2000 + 0 * shared

\* list.sort(key = score, reverse = True): descending and stable.
SortByScoreDesc(items) ==
  LET n == Len(items)
      before(i, j) == \/ items[i].score > items[j].score
                      \/ items[i].score = items[j].score /\ i < j
      at(p) == CHOOSE i \in 1..n : Cardinality({j \in 1..n : before(j, i)}) = p - 1
  IN  [p \in 1..n |-> items[at(p)]] \o <<>>

\* A reranking that rescores the items and leaves them in the order they
\* came in.
RerankWithoutSort(mem, query_text, items) ==
  IF ~mem.cross_encoder THEN items
  ELSE [i \in DOMAIN items |->
          [items[i] EXCEPT !.score = CrossEncoderPredict(query_text, _item_text(items[i]))]]
         \o <<>>

\* TagSuggester._rerank_with_cross_encoder
_rerank_with_cross_encoder(mem, query_text, items) ==
  IF ~mem.cross_encoder THEN items
  ELSE SortByScoreDesc(
         [i \in DOMAIN items |->
            [items[i] EXCEPT !.score = CrossEncoderPredict(query_text, _item_text(items[i]))]]
           \o <<>>)

SumScores(items) ==
  LET RECURSIVE sum(_)
      sum(i) == IF i = 0 THEN 0 ELSE items[i].score + sum(i - 1)
  IN  sum(Len(items))

NoSuggestMeta == [model |-> NoneStr, count |-> 0, reranker |-> NoneStr, engine |-> NoneStr]

\* The threshold test of the shortlist loop.
PassesThreshold(score, min_score) == ~(score < min_score)

\* The loop over the shortlist: entries with an empty slug or name and
\* entries below min_score are skipped; the others get their hybrid score and
\* their reason.
ShortlistItems(mem, text_proc, hits, min_score) ==
  LET kept == SelectSeq(hits, LAMBDA h :
                /\ mem.tags[h[2]].slug # "" /\ mem.tags[h[2]].name # ""
                /\ PassesThreshold(h[1], min_score))
  IN  [i \in DOMAIN kept |->
         LET tag   == mem.tags[kept[i][2]]
             ttext == mem.tag_texts[kept[i][2]]
         IN  [slug |-> tag.slug, name |-> tag.name, url |-> tag.url, description |-> "",
              score |-> _hybrid_score(text_proc, ttext, kept[i][1]),
              reason |-> keyword_overlap_reason(text_proc, ttext)]] \o <<>>

\* TagSuggester.suggest.  gw.q says whether embedding the query succeeds and
\* gw.b whether the embedding call of a build does.  The result is
\* [raised, items, meta, mem, disk]: suggest reloads the index when there
\* are no embeddings or their dimension is not the query's.  The steps of
\* the method follow one another from the last to the first.
SuggestFailed(m, d) ==
  [raised |-> TRUE, items |-> <<>>, meta |-> NoSuggestMeta, mem |-> m, disk |-> d]

\* use_ce
UseCrossEncoder(settings, use_reranker) ==
  IF use_reranker = NoneStr THEN settings.USE_CROSS_ENCODER ELSE use_reranker = "True"

\* The query as it is embedded.
QueryString(model_name, text_proc) ==
  IF IsE5(model_name) THEN <<"query:", Blank>> \o text_proc ELSE text_proc

SuggestRanked(mem, disk, k1, use_ce, ranked) ==
  [raised |-> FALSE,
   items |-> PySlice(ranked, 0, k1),
   meta |-> [model |-> mem.model_name, count |-> Len(mem.tags),
             reranker |-> IF use_ce THEN "cross-encoder" ELSE NoneStr,
             engine |-> "numpy"],
   mem |-> mem, disk |-> disk]

SuggestItems(mem, disk, text_proc, k1, use_ce, items) ==
  SuggestRanked(mem, disk, k1, use_ce,
                IF use_ce /\ items # <<>> /\ SumScores(items) < RERANK_BELOW * Len(items)
                THEN _rerank_with_cross_encoder(mem, text_proc, items)
                ELSE items)

SuggestHits(mem, disk, settings, text_proc, k1, min_score, use_reranker, sr) ==
  IF sr.raised \/ \E i \in DOMAIN sr.hits : sr.hits[i][2] > Len(mem.tags)
  THEN SuggestFailed(mem, disk)
  ELSE SuggestItems(mem, disk, text_proc, k1, UseCrossEncoder(settings, use_reranker),
                    ShortlistItems(mem, text_proc, sr.hits, min_score))

SuggestSearch(mem, disk, settings, tie, text_proc, k1, min_score, use_reranker, qv) ==
  SuggestHits(mem, disk, settings, text_proc, k1, min_score, use_reranker,
              NumpyIPIndex_search(mem.index, qv, Min2(SHORTLIST_CAP, Max2(k1, 1)), tie))

SuggestLoaded(r, settings, tie, text_proc, k, min_score, use_reranker, qv0) ==
  IF r.raised THEN SuggestFailed(r.mem, r.disk)
  ELSE SuggestSearch(r.mem, r.disk, settings, tie, text_proc,
                     Max2(1, Min2(k, Len(r.mem.tags))), min_score, use_reranker,
                     NormalizeRow(qv0))

SuggestEmbedded(mem0, disk0, csv, settings, tie, text_proc, k, min_score, use_reranker, gw, qv0) ==
  SuggestLoaded(IF mem0.embeddings.none \/ Len(qv0) # Len(mem0.embeddings.X[1])
                THEN reload(mem0, disk0, csv, settings, gw.b)
                ELSE [raised |-> FALSE, mem |-> mem0, disk |-> disk0],
                settings, tie, text_proc, k, min_score, use_reranker, qv0)

SuggestProcessed(mem0, disk0, csv, settings, tie, text_proc, k, min_score, use_reranker, gw) ==
  SuggestEmbedded(mem0, disk0, csv, settings, tie, text_proc, k, min_score, use_reranker,
                  gw, EmbedOne(mem0.model_name, QueryString(mem0.model_name, text_proc)))

suggest(mem0, disk0, csv, settings, tie, text, k, min_score, use_reranker, gw) ==
  IF ~gw.q THEN SuggestFailed(mem0, disk0)
  ELSE SuggestProcessed(mem0, disk0, csv, settings, tie, _preprocess_text(text), k,
                        min_score, use_reranker, gw)

(***************************************************************************)
(* tags.py: the text hash, the fingerprint key and the Redis helpers.      *)
(***************************************************************************)
HexDigits == <<"0", "1", "2", "3", "4", "5", "6", "7", "8", "9",
               "a", "b", "c", "d", "e", "f">>

HashedLexemes == <<Blank, "!", "<b>", "is", "tech", "chip", "match", "sports", "fast",
                   ":", "-", "http://t.co/tech", "caf-e-acute", "cafe", "news", "slug">>

\* hashlib.sha1(...).hexdigest(), as a digest without collisions: one
\* hexadecimal digit for each lexeme of the text.
Sha1Hex(text) ==
  [i \in DOMAIN text |->
     HexDigits[CHOOSE n \in DOMAIN HashedLexemes : HashedLexemes[n] = text[i]]] \o <<>>

\* tags.py compute_text_hash
compute_text_hash(text) == Sha1Hex(_canonicalize_text(text))

\* f"{x:.2f}" of a score: two decimals, rounded half to even.
FormatScore2f(x) ==
  LET a    == IF x < 0 THEN 0 - x ELSE x
      q    == a \div 100
      rem  == a % 100
      cent == IF rem > 50 \/ (rem = 50 /\ q % 2 = 1) THEN q + 1 ELSE q
  IN  (IF x < 0 THEN <<"-">> ELSE <<>>)
        \o NatStr(cent \div 100) \o <<".">>
        \o <<Digits[((cent % 100) \div 10) + 1], Digits[(cent % 10) + 1]>>

\* tags.py _cache_key
_cache_key(model, dim, text_hash, widen, min_score, articleId) ==
  <<"s", "u", "g", ":">> \o articleId \o <<":">> \o model \o <<":">> \o IntStr(dim)
    \o <<":">> \o text_hash \o <<":">> \o (IF widen THEN <<"1">> ELSE <<"0">>)
    \o <<":">> \o FormatScore2f(min_score)

\* The Redis store: a set of entries [key, value, ttl].
CacheHas(cache, key) == \E e \in cache : e.key = key
CacheValue(cache, key) == (CHOOSE e \in cache : e.key = key).value

\* cache.py cache_get_json: the stored pool, read back.  up says whether the
\* backend answers; the read raises when it does not.
cache_get_json(cache, key, up) ==
  IF ~up THEN [raised |-> TRUE, found |-> FALSE, value |-> <<>>]
  ELSE IF CacheHas(cache, key)
  THEN [raised |-> FALSE, found |-> TRUE, value |-> CacheValue(cache, key)]
  ELSE [raised |-> FALSE, found |-> FALSE, value |-> <<>>]

\* A cache_set_json that takes the expiry under any keyword.
CacheSetJsonAnyKeyword(cache, key, value, kw, seconds, up) ==
  IF ~up THEN [raised |-> TRUE, cache |-> cache]
  ELSE [raised |-> FALSE,
        cache |-> {e \in cache : e.key # key}
                    \cup {[key |-> key, value |-> value, ttl |-> seconds]}]

\* cache.py cache_set_json(key, value, ttl = None), called with the keyword
\* kw for the expiry: a keyword the function does not have raises TypeError
\* before anything is sent.
cache_set_json(cache, key, value, kw, seconds, up) ==
  IF kw # "ttl" THEN [raised |-> TRUE, cache |-> cache]
  ELSE IF ~up THEN [raised |-> TRUE, cache |-> cache]
  ELSE [raised |-> FALSE,
        cache |-> {e \in cache : e.key # key}
                    \cup {[key |-> key, value |-> value, ttl |-> seconds]}]

(***************************************************************************)
(* TagService.suggestTags.                                                 *)
(***************************************************************************)
NoMeta == [text_hash |-> <<>>, start |-> 0, total |-> 0, has_more |-> FALSE,
           next_cursor |-> <<>>, model |-> <<>>, dim |-> 0,
           reranker |-> NoneStr, count |-> 0]

\* A start position that ignores the offset of a request that has a cursor.
StartPosCursorOnly(r, dec) ==
  IF dec # NoCursor THEN dec[2] ELSE IF r.cursor # <<>> THEN 0 ELSE r.offset

\* The position paging starts from: the one the cursor holds when the
\* request has a cursor that decodes, otherwise the request's offset.
StartPos(r, dec) == IF dec # NoCursor THEN dec[2] ELSE r.offset

\* The threshold handed to the resolver.
EffectiveMin(min_score, widen) ==
  IF widen THEN Max2(0, min_score - WIDEN_OFFSET) ELSE min_score

\* A filter that is skipped.
ExcludeFilterSkipped(items, exclude_slugs) == items

\* The exclude filter applied to the computed items.
ExcludeFilter(items, exclude_slugs) ==
  IF exclude_slugs = {} THEN items
  ELSE SelectSeq(items, LAMBDA it : it.slug # "" /\ it.slug \notin exclude_slugs)

\* The result is [status, page, meta, key, pool, source, stored, mem, disk,
\* cache].  status is "ok", or "no_content" / "raised" for the two ways of
\* returning ([], {}).  key, pool, source and stored report the cache key
\* used, the pool the page was cut from, where it came from ("hit" or
\* "computed") and whether it was written to the cache.  The steps of the
\* method follow one another from the last to the first.
ReturnsNothing(st, m, d, c) ==
  [status |-> st, page |-> <<>>, meta |-> NoMeta, key |-> <<>>, pool |-> <<>>,
   source |-> "none", stored |-> FALSE, mem |-> m, disk |-> d, cache |-> c]

\* emb_dim
EmbDim(mem0) == IF mem0.embeddings.none THEN 0 ELSE Len(mem0.embeddings.X[1])

\* What the method works out of the request before the cache is read: k,
\* start_pos, text_hash, model_name, emb_dim and cache_key.
RequestFrame(mem0, r, dec, text_hash) ==
  [k |-> IF r.limit = 0 THEN 5 ELSE r.limit,
   start_pos |-> StartPos(r, dec),
   text_hash |-> text_hash,
   model_name |-> mem0.model_name,
   emb_dim |-> EmbDim(mem0),
   cache_key |-> IF dec # NoCursor /\ dec[1] # <<>> THEN dec[1]
                 ELSE _cache_key(mem0.model_name, EmbDim(mem0), text_hash, r.widen,
                                 r.min_score, <<>>)]

\* A page whose continuation token holds the position the page starts at.
PageResultsCursorAtStart(f, pool, end_pos, source, stored, reranker, count, m, d, c) ==
  [status |-> "ok",
   page   |-> PySlice(pool, f.start_pos, end_pos),
   meta   |-> [text_hash |-> f.text_hash, start |-> f.start_pos, total |-> Len(pool),
               has_more |-> end_pos < Len(pool),
               next_cursor |-> IF end_pos < Len(pool)
                               THEN _encode_cursor(f.cache_key, f.start_pos)
                               ELSE <<>>,
               model |-> f.model_name, dim |-> f.emb_dim,
               reranker |-> reranker, count |-> count],
   key    |-> f.cache_key, pool |-> pool, source |-> source, stored |-> stored,
   mem    |-> m, disk |-> d, cache |-> c]

\* "Page results" and "Merge/augment meta".
PageResults(f, pool, end_pos, source, stored, reranker, count, m, d, c) ==
  [status |-> "ok",
   page   |-> PySlice(pool, f.start_pos, end_pos),
   meta   |-> [text_hash |-> f.text_hash, start |-> f.start_pos, total |-> Len(pool),
               has_more |-> end_pos < Len(pool),
               next_cursor |-> IF end_pos < Len(pool)
                               THEN _encode_cursor(f.cache_key, end_pos)
                               ELSE <<>>,
               model |-> f.model_name, dim |-> f.emb_dim,
               reranker |-> reranker, count |-> count],
   key    |-> f.cache_key, pool |-> pool, source |-> source, stored |-> stored,
   mem    |-> m, disk |-> d, cache |-> c]

\* "Cache the full pool for pagination".
StorePool(f, sg, pool, set) ==
  PageResults(f, pool, Min2(Len(pool), f.start_pos + f.k), "computed", ~set.raised,
              sg.meta.reranker, sg.meta.count, sg.mem, sg.disk, set.cache)

\* A computation that goes on to page the items of a resolver that raised.
ComputePoolUnguarded(cache0, r, up, f, sg) ==
  StorePool(f, sg, ExcludeFilter(sg.items, r.exclude_slugs),
            cache_set_json(cache0, f.cache_key,
                           ExcludeFilter(sg.items, r.exclude_slugs), "ex",
                           CACHE_TTL_SECONDS, up))

\* "Compute once if no cached pool".
ComputePool(cache0, r, up, f, sg) ==
  IF sg.raised THEN ReturnsNothing("raised", sg.mem, sg.disk, cache0)
  ELSE StorePool(f, sg, ExcludeFilter(sg.items, r.exclude_slugs),
                 cache_set_json(cache0, f.cache_key,
                                ExcludeFilter(sg.items, r.exclude_slugs), "ex",
                                CACHE_TTL_SECONDS, up))

\* A cache read whose failure ends the request.
CachedPoolSurfacing(mem0, disk0, csv, settings, tie, cache0, r, gw, up, f, got) ==
  IF got.raised THEN ReturnsNothing("raised", mem0, disk0, cache0)
  ELSE ComputePool(cache0, r, up, f,
                   suggest(mem0, disk0, csv, settings, tie, r.text, TOPK_CANDIDATES,
                           EffectiveMin(r.min_score, r.widen), r.use_reranker, gw))

\* "Try Redis for cached pool".
CachedPool(mem0, disk0, csv, settings, tie, cache0, r, gw, up, f, got) ==
  IF ~got.raised /\ got.found
  THEN PageResults(f, got.value, Min2(Len(got.value), f.start_pos + f.k), "hit", FALSE,
                   NoneStr, 0, mem0, disk0, cache0)
  ELSE ComputePool(cache0, r, up, f,
                   suggest(mem0, disk0, csv, settings, tie, r.text, TOPK_CANDIDATES,
                           EffectiveMin(r.min_score, r.widen), r.use_reranker, gw))

FramedRequest(mem0, disk0, csv, settings, tie, cache0, r, gw, up, f) ==
  CachedPool(mem0, disk0, csv, settings, tie, cache0, r, gw, up, f,
             cache_get_json(cache0, f.cache_key, up))

suggestTags(mem0, disk0, csv, settings, tie, cache0, r, gw, up) ==
  IF r.text = <<>> THEN ReturnsNothing("no_content", mem0, disk0, cache0)
  ELSE FramedRequest(mem0, disk0, csv, settings, tie, cache0, r, gw, up,
                     RequestFrame(mem0, r,
                                  IF r.cursor # <<>> THEN _decode_cursor(r.cursor)
                                  ELSE NoCursor,
                                  compute_text_hash(r.text)))

(***************************************************************************)
(* The state: the configuration, the catalog file, the persisted snapshot, *)
(* the suggester of the TagService at hand, the Redis store, the last      *)
(* request and its response, a paging session, and a cursor being coded.   *)
(***************************************************************************)
VARIABLES settings, tieBreak, csv, disk, mem, cache, good, op, req, resp, sess, cur,
          rel, proc

vars == <<settings, tieBreak, csv, disk, mem, cache, good, op, req, resp, sess, cur,
          rel, proc>>

MaxBuilds == 2

SettingsMini == [EMBEDDING_MODEL |-> ModelMini, USE_CROSS_ENCODER |-> FALSE,
                 ce_loadable |-> TRUE]
SettingsE5 == [EMBEDDING_MODEL |-> ModelE5, USE_CROSS_ENCODER |-> TRUE,
               ce_loadable |-> TRUE]
SettingsSet == {SettingsMini, SettingsE5}

GwOk == [q |-> TRUE, b |-> TRUE]
Gateways == {GwOk, [q |-> FALSE, b |-> TRUE]}

\* SuggestRequest with its defaults (limit 5 and min_score 0.2 in the schema).
SuggestRequest(text) ==
  [text |-> text, limit |-> 5, min_score |-> 2000, use_reranker |-> NoneStr,
   cursor |-> <<>>, offset |-> 0, widen |-> FALSE, exclude_slugs |-> {}]

NoReq == [r |-> SuggestRequest(<<>>), gw |-> GwOk, up |-> TRUE]
NoResp == [status |-> "none", page |-> <<>>, meta |-> NoMeta, key |-> <<>>,
           pool |-> <<>>, source |-> "none", stored |-> FALSE]
NoSess == [active |-> FALSE, key |-> <<>>, n |-> 0, next |-> 0, acc |-> <<>>,
           pool0 |-> <<>>, done |-> FALSE]
IdleCur == [key |-> <<>>, pos |-> 0, tok |-> <<>>, dec |-> NoCursor, pc |-> "idle"]

\* The last construction or reload of a service: whether the embedding call
\* of its build succeeds (gwb), and how the call ended.  status is "raised"
\* when the exception left the call, otherwise "constructed" or the status
\* reloadIndex answers with, and count is the count of that answer.
NoRel == [gwb |-> TRUE, status |-> "none", count |-> 0]

\* The requests in flight, each on a suggester of its own; none while the
\* operations run one after the other.
Workers == {"w1", "w2"}
IdleWorker == [pc |-> "idle", mem |-> NewSuggester(SettingsMini)]
IdleProcs == [w \in Workers |-> IdleWorker]

\* A catalog that exists and yields at least one tag.
Buildable(c) == c.exists /\ ValidRows(c.rows) # <<>>

\* The server after start-up: TagService.__init__ has built the index from
\* the catalog and persisted it; nothing has been requested yet.
InitService(ss, ts, cats) ==
  /\ settings \in ss
  /\ tieBreak \in ts
  /\ csv \in {[exists |-> TRUE, rows |-> c] : c \in cats}
  /\ \E l \in {load(NewSuggester(settings), EmptyDisk, csv, settings, FALSE, TRUE)} :
       mem = l.mem /\ disk = l.disk
  /\ cache = {}
  /\ good = [mem |-> 1, disk |-> TRUE]
  /\ op = "init"
  /\ req = NoReq
  /\ resp = NoResp
  /\ sess = NoSess
  /\ rel = NoRel
  /\ proc = IdleProcs

\* TagService.__init__: a new suggester that loads the persisted snapshot
\* or builds one.  gwb says whether the embedding call of a build succeeds.
\* When load raises no service comes into being.
NewTagService(gwb) ==
  \E l \in {load(NewSuggester(settings), disk, csv, settings, FALSE, gwb)},
     cached \in {_cache_is_valid(_load_models(NewSuggester(settings), settings), disk, csv)},
     ok \in {gwb /\ Buildable(csv)} :
      /\ mem' = IF l.raised THEN mem ELSE l.mem
      /\ disk' = l.disk
      /\ good' = IF cached
                 THEN [good EXCEPT !.mem = IF l.raised THEN @
                                           ELSE IF good.disk THEN 1 ELSE 0]
                 ELSE [mem |-> IF l.raised THEN good.mem ELSE IF ok THEN 1 ELSE 0,
                       disk |-> ok /\ ~l.raised]
      /\ op' = "new"
      /\ rel' = [gwb |-> gwb, status |-> IF l.raised THEN "raised" ELSE "constructed",
                 count |-> 0]
      /\ UNCHANGED <<settings, tieBreak, csv, cache, req, resp, sess, cur, proc>>

\* TagService.reloadIndex: suggester.reload() on the service at hand.
ReloadIndex(gwb) ==
  \E l \in {reload(mem, disk, csv, settings, gwb)}, ok \in {gwb /\ Buildable(csv)} :
      /\ mem' = l.mem
      /\ disk' = l.disk
      /\ good' = [mem |-> IF ok THEN Min2(good.mem + 1, MaxBuilds) ELSE 0,
                  disk |-> ok /\ ~l.raised]
      /\ op' = "reloadIndex"
      /\ rel' = IF l.raised THEN [gwb |-> gwb, status |-> "raised", count |-> 0]
                ELSE [gwb |-> gwb, status |-> "reloaded", count |-> Len(l.mem.tags)]
      /\ UNCHANGED <<settings, tieBreak, csv, cache, req, resp, sess, cur, proc>>

\* The catalog file is replaced: the persisted files are older than it now.
ReplaceCsv(cat) ==
  /\ ~(csv.exists /\ csv.rows = cat)
  /\ csv' = [exists |-> TRUE, rows |-> cat]
  /\ disk' = [emb  |-> [disk.emb EXCEPT !.stale = disk.emb.exists],
              meta |-> [disk.meta EXCEPT !.stale = disk.meta.exists]]
  /\ good' = [mem |-> 0, disk |-> FALSE]
  /\ op' = "replaceCsv"
  /\ rel' = NoRel
  /\ UNCHANGED <<settings, tieBreak, mem, cache, req, resp, sess, cur, proc>>

\* The catalog file is removed.
RemoveCsv ==
  /\ csv.exists
  /\ csv' = [exists |-> FALSE, rows |-> <<>>]
  /\ good' = [mem |-> 0, disk |-> FALSE]
  /\ op' = "removeCsv"
  /\ rel' = NoRel
  /\ UNCHANGED <<settings, tieBreak, disk, mem, cache, req, resp, sess, cur, proc>>

\* What the caller sees of a result of suggestTags, with the notes on it.
Response(res) ==
  [status |-> res.status, page |-> res.page, meta |-> res.meta, key |-> res.key,
   pool |-> res.pool, source |-> res.source, stored |-> res.stored]

\* The paging session the response belongs to: it starts with a request for
\* offset 0 and goes on with the requests for the next offset, same key and
\* same page size, until has_more is false.
NextSess(s, r, res) ==
  IF res.status # "ok" \/ r.cursor # <<>> THEN NoSess
  ELSE IF r.offset = 0
  THEN [active |-> TRUE, key |-> res.key, n |-> r.limit, next |-> r.limit,
        acc |-> res.page, pool0 |-> res.pool, done |-> ~res.meta.has_more]
  ELSE IF s.active /\ ~s.done /\ r.offset = s.next /\ res.key = s.key /\ r.limit = s.n
  THEN [s EXCEPT !.acc = s.acc \o res.page, !.next = s.next + r.limit,
                 !.done = ~res.meta.has_more]
  ELSE NoSess

\* POST /suggest: TagService.suggestTags on the service at hand.  gw says
\* which embedding calls succeed and up whether Redis answers.
SuggestTags(r, gw, up) ==
  \E res \in {suggestTags(mem, disk, csv, settings, tieBreak, cache, r, gw, up)} :
      /\ mem' = res.mem
      /\ disk' = res.disk
      /\ cache' = res.cache
      /\ good' = IF res.mem = mem /\ res.disk = disk THEN good
                 ELSE [mem |-> 0, disk |-> FALSE]
      /\ op' = "suggestTags"
      /\ req' = [r |-> r, gw |-> gw, up |-> up]
      /\ resp' = Response(res)
      /\ sess' = NextSess(sess, r, res)
      /\ rel' = NoRel
      /\ UNCHANGED <<settings, tieBreak, csv, cur, proc>>

(***************************************************************************)
(* The requests and the two service specifications: Spec pages through a   *)
(* pool (limits, offsets, cursors, exclude sets), SpecKnobs varies the     *)
(* knobs that shape the pool.                                              *)
(***************************************************************************)
MaxLimit == 2
MaxOffset == 1

TextTech == <<"tech", Blank, "chip", "!">>
TextMatch == <<"match", Blank, Blank, "sports">>
TextPunct == <<"!", Blank, "<b>">>
TextEmpty == <<>>
TextChip == <<"chip">>

BadCursors == {<<"a", "b", "c">>}
Excludes == {{}, {"tech"}}

\* The cursors a client can send: none, a corrupt one, or the next_cursor
\* of the last response.
CursorsNow == {<<>>} \cup BadCursors \cup {resp.meta.next_cursor}

PagingRequests ==
  {[SuggestRequest(TextTech) EXCEPT !.limit = n, !.offset = o, !.cursor = c,
                                    !.exclude_slugs = e] :
     n \in 1..MaxLimit, o \in 0..MaxOffset, c \in CursorsNow, e \in Excludes}

MinScores == {0 - ScoreUnit, 2000, 2040}
Rerankers == {NoneStr, "False"}

KnobRequests ==
  {[SuggestRequest(t) EXCEPT !.min_score = m, !.widen = w, !.use_reranker = u,
                             !.exclude_slugs = e] :
     t \in {TextTech, TextMatch, TextPunct, TextEmpty}, m \in MinScores,
     w \in BOOLEAN, u \in Rerankers, e \in Excludes}

Init == InitService({SettingsMini}, {"catalog"}, {CatalogA}) /\ cur = IdleCur

Next ==
  \/ \E gwb \in {TRUE} : ReloadIndex(gwb)
  \/ \E cat \in Catalogs : ReplaceCsv(cat)
  \/ \E r \in PagingRequests, gw \in {GwOk}, up \in {TRUE} : SuggestTags(r, gw, up)

Spec == Init /\ [][Next]_vars

InitKnobs == InitService(SettingsSet, {"catalog"}, Catalogs) /\ cur = IdleCur

NextKnobs ==
  \E r \in KnobRequests, gw \in {GwOk}, up \in BOOLEAN : SuggestTags(r, gw, up)

SpecKnobs == InitKnobs /\ [][NextKnobs]_vars

(***************************************************************************)
(* SpecIndex: services are constructed, the index is reloaded and the      *)
(* catalog file is replaced or removed, with builds whose embedding call   *)
(* fails among them.                                                       *)
(***************************************************************************)
IndexRequests == {SuggestRequest(TextTech)}

NextIndex ==
  \/ \E gwb \in BOOLEAN : NewTagService(gwb)
  \/ \E gwb \in BOOLEAN : ReloadIndex(gwb)
  \/ \E cat \in Catalogs : ReplaceCsv(cat)
  \/ RemoveCsv
  \/ \E r \in IndexRequests, gw \in Gateways, up \in BOOLEAN : SuggestTags(r, gw, up)

InitIndex == InitService(SettingsSet, TieBreaks, {CatalogA}) /\ cur = IdleCur

SpecIndex == InitIndex /\ [][NextIndex]_vars

(***************************************************************************)
(* SpecCursor: a key and a position are encoded to a token and the token   *)
(* is decoded again.                                                       *)
(***************************************************************************)
CursorKeyChars == {"a", ":", "\"", "\\", EAcute, Newline}

InitCursor ==
  /\ InitService({SettingsMini}, {"catalog"}, {CatalogA})
  /\ cur \in {[IdleCur EXCEPT !.key = k, !.pos = p, !.pc = "start"] :
               k \in SeqsUpTo(CursorKeyChars, MaxKeyLen), p \in (0 - MaxPos)..MaxPos}

EncodeCursor ==
  /\ cur.pc = "start"
  /\ cur' = [cur EXCEPT !.tok = _encode_cursor(cur.key, cur.pos), !.pc = "encoded"]
  /\ UNCHANGED <<settings, tieBreak, csv, disk, mem, cache, good, op, req, resp, sess,
                 rel, proc>>

DecodeCursor ==
  /\ cur.pc = "encoded"
  /\ cur' = [cur EXCEPT !.dec = _decode_cursor(cur.tok), !.pc = "decoded"]
  /\ UNCHANGED <<settings, tieBreak, csv, disk, mem, cache, good, op, req, resp, sess,
                 rel, proc>>

NextCursor == EncodeCursor \/ DecodeCursor

SpecCursor == InitCursor /\ [][NextCursor]_vars

(***************************************************************************)
(* SpecWorkers: requests in flight at the same time.  Each request gets a  *)
(* TagService of its own, constructed in a worker thread, and so a         *)
(* TagSuggester of its own; the catalog file and the two persisted files   *)
(* are shared.  Nothing in load, _load_cache, _build_from_csv or           *)
(* _save_cache takes a lock, so between two file operations of one request *)
(* the other request and the replacement of the catalog file can run.  pc  *)
(* is the position of a request: "idle", "load_meta", "load_emb", "build", *)
(* "save_emb", "save_meta", or "ready" once its suggester is loaded.  The   *)
(* embedding calls succeed.                                                *)
(***************************************************************************)
OthersUnchanged ==
  UNCHANGED <<settings, tieBreak, csv, mem, cache, good, op, req, resp, sess, cur, rel>>

\* TagService.__init__ up to the decision of load(force_rebuild = False).
Construct(w) ==
  /\ proc[w].pc = "idle"
  /\ \E fresh \in {_load_models(NewSuggester(settings), settings)} :
       proc' = [proc EXCEPT ![w] = [pc |-> IF _cache_is_valid(fresh, disk, csv)
                                           THEN "load_meta" ELSE "build",
                                    mem |-> fresh]]
  /\ UNCHANGED disk
  /\ OthersUnchanged

\* _load_cache: the metadata file is read; a file that is missing or does
\* not parse raises, and the request ends.
LoadMeta(w) ==
  /\ proc[w].pc = "load_meta"
  /\ proc' = [proc EXCEPT ![w] =
                IF disk.meta.exists /\ disk.meta.parses
                THEN [pc |-> "load_emb",
                      mem |-> [proc[w].mem EXCEPT !.tags = disk.meta.tags,
                                                  !.tag_texts = disk.meta.tag_texts]]
                ELSE IdleWorker]
  /\ UNCHANGED disk
  /\ OthersUnchanged

\* _load_cache: the embeddings file is read and the index is made of it.
LoadEmb(w) ==
  /\ proc[w].pc = "load_emb"
  /\ proc' = [proc EXCEPT ![w] =
                IF disk.emb.exists /\ ~disk.emb.none
                THEN [pc |-> "ready",
                      mem |-> [proc[w].mem EXCEPT
                                 !.embeddings = [none |-> FALSE, X |-> disk.emb.X],
                                 !.index = IF proc[w].mem.index.none
                                           THEN [none |-> FALSE, dim |-> Len(disk.emb.X[1]),
                                                 X |-> disk.emb.X]
                                           ELSE proc[w].mem.index]]
                ELSE IdleWorker]
  /\ UNCHANGED disk
  /\ OthersUnchanged

\* TagService.reloadIndex: reload() starts a build on the request's
\* suggester.
ReloadWorker(w) ==
  /\ proc[w].pc = "ready"
  /\ proc' = [proc EXCEPT ![w].pc = "build"]
  /\ UNCHANGED disk
  /\ OthersUnchanged

\* _build_from_csv on the request's suggester.
Build(w) ==
  /\ proc[w].pc = "build"
  /\ proc' = [proc EXCEPT ![w] = [pc |-> "save_emb",
                                  mem |-> _build_from_csv(proc[w].mem, csv, TRUE)]]
  /\ UNCHANGED disk
  /\ OthersUnchanged

\* _save_cache: np.save of the embeddings.
SaveEmb(w) ==
  /\ proc[w].pc = "save_emb"
  /\ disk' = [disk EXCEPT !.emb = _save_cache(proc[w].mem, disk).disk.emb]
  /\ proc' = [proc EXCEPT ![w].pc = "save_meta"]
  /\ OthersUnchanged

\* _save_cache: the metadata file is opened for writing and written; the
\* request ends when that raises.
SaveMeta(w) ==
  /\ proc[w].pc = "save_meta"
  /\ \E saved \in {_save_cache(proc[w].mem, disk)} :
       /\ disk' = [disk EXCEPT !.meta = saved.disk.meta]
       /\ proc' = [proc EXCEPT ![w] = IF saved.raised THEN IdleWorker
                                      ELSE [proc[w] EXCEPT !.pc = "ready"]]
  /\ OthersUnchanged

\* The request is answered and its service is dropped.
Finish(w) ==
  /\ proc[w].pc = "ready"
  /\ proc' = [proc EXCEPT ![w] = IdleWorker]
  /\ UNCHANGED disk
  /\ OthersUnchanged

InitWorkers == InitService({SettingsMini}, {"catalog"}, {CatalogA}) /\ cur = IdleCur

NextWorkers ==
  \/ \E w \in Workers : Construct(w)
  \/ \E w \in Workers : LoadMeta(w)
  \/ \E w \in Workers : LoadEmb(w)
  \/ \E w \in Workers : ReloadWorker(w)
  \/ \E w \in Workers : Build(w)
  \/ \E w \in Workers : SaveEmb(w)
  \/ \E w \in Workers : SaveMeta(w)
  \/ \E w \in Workers : Finish(w)
  \/ \E cat \in Catalogs : ReplaceCsv(cat)

SpecWorkers == InitWorkers /\ [][NextWorkers]_vars

\* C1: for every key and every position, decoding the token that
\* _encode_cursor made of them returns exactly that key and that position.
C1_RoundTrip == cur.pc = "decoded" => cur.dec = <<cur.key, cur.pos>>

C1_Witness ==
  /\ cur.pc = "decoded"
  /\ cur.dec = <<cur.key, cur.pos>>
  /\ cur.pos < 0
  /\ \E i \in DOMAIN cur.key : cur.key[i] = "\""
  /\ \E i \in DOMAIN cur.key : cur.key[i] = EAcute

(***************************************************************************)
(* Paging (Spec).                                                          *)
(***************************************************************************)
\* The last step served a request.
Served == op = "suggestTags"

\* C2: the pages of a session (offset 0, n, 2n, ... with limit n, under one
\* key, until has_more is false), concatenated in request order, equal the
\* pool the session started with.
C2_PagesReproducePool == (sess.active /\ sess.done) => sess.acc = sess.pool0

\* C3: a request that supplies the next_cursor of the last response, which
\* ended at position e of its pool P, is served P[e : e + m] for its limit
\* m, and its has_more is false when e + m >= |P|.
C3_CursorServesRest ==
  [][(op' = "suggestTags" /\ resp.meta.next_cursor # <<>>
        /\ req'.r.cursor = resp.meta.next_cursor)
     => LET e == _decode_cursor(resp.meta.next_cursor)[2]
            m == req'.r.limit
        IN  /\ resp'.status = "ok"
            /\ resp'.page = PySlice(resp.pool, e, e + m)
            /\ (e + m >= Len(resp.pool) => ~resp'.meta.has_more)]_vars

\* C4: no page of a request that carries an exclude set holds a candidate
\* whose slug is in that set, whatever requests preceded it.
C4_ExcludedNeverServed ==
  \A i \in DOMAIN resp.page : resp.page[i].slug \notin req.r.exclude_slugs

C4_Witness ==
  /\ Served
  /\ req.r.exclude_slugs = {"tech"}
  /\ _decode_cursor(req.r.cursor) # NoCursor
  /\ resp.page # <<>>
  /\ \E i \in DOMAIN mem.tags : mem.tags[i].slug = "tech"

\* The key suggestTags computes for a request without a usable cursor.
FreshKey(r, meta) ==
  _cache_key(meta.model, meta.dim, meta.text_hash, r.widen, r.min_score, <<>>)

BadCursor(r) == r.cursor # <<>> /\ _decode_cursor(r.cursor) = NoCursor

\* C8 (amended): a request whose cursor fails to decode is answered exactly
\* as the same request without the cursor: the freshly computed key is used
\* and paging starts from the request's offset (0 when it gives none).
C8_BadCursorAsNoCursor ==
  [][(op' = "suggestTags" /\ BadCursor(req'.r))
     => \E res \in {suggestTags(mem, disk, csv, settings, tieBreak, cache,
                                [req'.r EXCEPT !.cursor = <<>>], req'.gw, req'.up)} :
          /\ resp' = Response(res)
          /\ mem' = res.mem /\ disk' = res.disk /\ cache' = res.cache
          /\ resp'.status = "ok" =>
               /\ resp'.meta.start = req'.r.offset
               /\ resp'.key = FreshKey(req'.r, resp'.meta)]_vars

C8_Witness ==
  /\ Served
  /\ BadCursor(req.r)
  /\ req.r.offset = 1
  /\ resp.status = "ok"
  /\ resp.meta.start = 1
  /\ resp.page # <<>>

\* C8 as stated: after a cursor that fails to decode the freshly computed
\* key is used and paging starts from position 0.
C8_BadCursorStartsAtZero ==
  (Served /\ BadCursor(req.r) /\ resp.status = "ok")
    => (resp.key = FreshKey(req.r, resp.meta) /\ resp.meta.start = 0)

\* C10: a request that misses the cache while Redis is reachable leaves its
\* pool stored under its key with the configured TTL.
C10_MissStoresPool ==
  (Served /\ resp.source = "computed" /\ req.up)
    => /\ resp.stored
       /\ \E e \in cache : e.key = resp.key /\ e.value = resp.pool
                           /\ e.ttl = CACHE_TTL_SECONDS

\* The end of the window of a response: min(len(pool), start_pos + k).
WindowEnd(r, rsp) ==
  Min2(Len(rsp.pool), rsp.meta.start + (IF r.limit = 0 THEN 5 ELSE r.limit))

\* C13: in every response that did not fail, the page is the window of the
\* pool from start to the window's end, has_more is true exactly when that
\* end is before the length of the pool, next_cursor is present exactly when
\* has_more is true, and it decodes to the key the pool was looked up under
\* and the window's end.
C13_HasMoreAndCursor ==
  (Served /\ resp.status = "ok")
    => /\ resp.page = PySlice(resp.pool, resp.meta.start, WindowEnd(req.r, resp))
       /\ resp.meta.has_more <=> WindowEnd(req.r, resp) < Len(resp.pool)
       /\ (resp.meta.next_cursor # <<>>) <=> resp.meta.has_more
       /\ resp.meta.has_more
            => _decode_cursor(resp.meta.next_cursor) = <<resp.key, WindowEnd(req.r, resp)>>

C13_Witness ==
  /\ Served
  /\ resp.status = "ok"
  /\ _decode_cursor(req.r.cursor) # NoCursor
  /\ resp.meta.start >= 1
  /\ resp.meta.has_more
  /\ _decode_cursor(resp.meta.next_cursor) = <<resp.key, resp.meta.start + 1>>

(***************************************************************************)
(* The knobs (SpecKnobs).                                                  *)
(***************************************************************************)
Slugs(pool) == {pool[i].slug : i \in DOMAIN pool}

\* C5: for the same text and snapshot, the candidates admitted with
\* widen = true include those admitted with widen = false.
C5_WidenAdmitsNoFewer ==
  [][(op' = "suggestTags" /\ req'.r.widen /\ resp'.status = "ok")
     => \E narrow \in {suggestTags(mem, disk, csv, settings, tieBreak, cache,
                                   [req'.r EXCEPT !.widen = FALSE], req'.gw, req'.up)} :
          Slugs(narrow.pool) \subseteq Slugs(resp'.pool)]_vars

\* C6: a query whose preprocessed text is empty yields an empty pool and no
\* error.
C6_EmptyTextEmptyPool ==
  (Served /\ _preprocess_text(req.r.text) = <<>>)
    => (resp.status # "raised" /\ resp.pool = <<>> /\ resp.page = <<>>)

\* The requests that differ from r in one knob.
KnobVariants(r) ==
  {[r EXCEPT !.exclude_slugs = e] : e \in Excludes}
    \cup {[r EXCEPT !.use_reranker = u] : u \in Rerankers}
    \cup {[r EXCEPT !.min_score = m] : m \in MinScores}
    \cup {[r EXCEPT !.widen = w] : w \in BOOLEAN}

\* C9: two requests without cursor that differ in a knob and get different
\* pools on the same snapshot never compute the same key.
C9_DistinctPoolsDistinctKeys ==
  [][(op' = "suggestTags" /\ req'.r.cursor = <<>> /\ resp'.status = "ok")
     => \A r2 \in KnobVariants(req'.r) :
          \E other \in {suggestTags(mem, disk, csv, settings, tieBreak, cache,
                                    r2, req'.gw, req'.up)} :
            (other.status = "ok" /\ other.pool # resp'.pool) => other.key # resp'.key]_vars

(***************************************************************************)
(* The index (SpecIndex).                                                  *)
(***************************************************************************)
\* The snapshot a first build makes of the catalog as it is now.
FreshSnapshot ==
  _build_from_csv(_load_models(NewSuggester(settings), settings), csv, TRUE)

Queries == {TextTech, TextChip, TextMatch, TextPunct}

\* The candidates suggest returns for a query, in order, with every score
\* admitted.
Ranking(m, q) ==
  suggest(m, disk, csv, settings, tieBreak, q, TOPK_CANDIDATES, 0 - ScoreUnit,
          NoneStr, GwOk).items

\* C7: once the index has been built from the catalog as it is now (good.mem
\* counts these builds), suggest returns for every query what it returns on
\* a first build of that catalog with that model, however many loads and
\* reloads ran before.
C7_RebuildSameOrdering ==
  good.mem >= 1 => \A q \in Queries : Ranking(mem, q) = Ranking(FreshSnapshot, q)

C7_Witness ==
  /\ good.mem = MaxBuilds
  /\ op = "reloadIndex"
  /\ csv.rows = CatalogB
  /\ Len(Ranking(mem, TextChip)) = 3
  /\ Ranking(mem, TextChip) = Ranking(FreshSnapshot, TextChip)

\* C11: a request served while Redis does not answer gets the status, the
\* page and the metadata of the same request served with no cache at all;
\* the failed read and the failed write are not surfaced.
C11_CacheFailureTransparent ==
  [][(op' = "suggestTags" /\ ~req'.up)
     => \E bare \in {suggestTags(mem, disk, csv, settings, tieBreak, {}, req'.r,
                                 req'.gw, TRUE)} :
          /\ resp'.status = bare.status
          /\ resp'.page = bare.page
          /\ resp'.meta = bare.meta]_vars

C11_Witness ==
  /\ Served
  /\ ~req.up
  /\ resp.status = "ok"
  /\ resp.source = "computed"
  /\ resp.page # <<>>
  /\ resp.meta.total = Len(resp.pool)

\* The resolver raises for the request r on the suggester m.
ResolverRaises(m, d, r, gw) ==
  suggest(m, d, csv, settings, tieBreak, r.text, TOPK_CANDIDATES,
          EffectiveMin(r.min_score, r.widen), r.use_reranker, gw).raised

\* C12: when the resolver raises inside suggestTags, suggestTags returns an
\* empty page with empty metadata.
C12_ResolverFailureEmpty ==
  [][(op' = "suggestTags" /\ req'.r.text # <<>> /\ resp'.source # "hit"
        /\ ResolverRaises(mem, disk, req'.r, req'.gw))
     => (resp'.status = "raised" /\ resp'.page = <<>> /\ resp'.meta = NoMeta)]_vars

C12_Witness ==
  /\ Served
  /\ ~req.gw.q
  /\ req.r.text # <<>>
  /\ resp.status = "raised"
  /\ resp.page = <<>>
  /\ resp.meta = NoMeta

(***************************************************************************)
(* Builds (SpecIndex).                                                     *)
(***************************************************************************)
\* C14: a reload whose embedding call fails leaves tags, tag texts,
\* embeddings and index as they were and writes no persisted file.
C14_FailedBuildKeepsSnapshot ==
  [][(op' = "reloadIndex" /\ ~rel'.gwb /\ Buildable(csv))
     => /\ mem'.tags = mem.tags
        /\ mem'.tag_texts = mem.tag_texts
        /\ mem'.embeddings = mem.embeddings
        /\ mem'.index = mem.index
        /\ disk' = disk]_vars

\* C15: a reload while the catalog file is missing leaves the in-memory
\* snapshot exactly as it was and does not replace the persisted files.
C15_MissingCatalogKeepsAll ==
  [][(op' = "reloadIndex" /\ ~csv.exists) => (mem' = mem /\ disk' = disk)]_vars

\* C16: reloadIndex does not answer "reloaded" after a build that failed
\* (the catalog is missing or yields no tag, or the embedding call fails).
C16_FailedBuildNotReloaded ==
  (op = "reloadIndex" /\ ~(rel.gwb /\ Buildable(csv))) => rel.status # "reloaded"

\* The dimensionality of the vectors of a model.
ModelDim(model) == Len(EmbedOne(model, <<>>))

\* A persisted snapshot exists, records the model name and the
\* dimensionality of the configured model, and is not older than the
\* catalog file.
SnapshotUsable(m, d, c) ==
  /\ d.emb.exists /\ d.meta.exists /\ d.meta.parses
  /\ d.meta.model = m.model_name
  /\ d.meta.dim = ModelDim(m.model_name)
  /\ ~(c.exists /\ (d.emb.stale \/ d.meta.stale))

MaxTopN == 3

\* The normalized query vector suggest hands to the index.
QueryVector(model, q) ==
  NormalizeRow(EmbedOne(model, QueryString(model, _preprocess_text(q))))

\* The hits are the n best rows by <<score descending, row ascending>>.
StableTopN(X, qv, n, hits) ==
  /\ Len(hits) = Min2(n, Len(X))
  /\ \A p \in DOMAIN hits : hits[p][1] = InnerProduct(qv, X[hits[p][2]])
  /\ \A p, q \in DOMAIN hits :
       p < q => \/ hits[p][1] > hits[q][1]
                \/ hits[p][1] = hits[q][1] /\ hits[p][2] < hits[q][2]
  /\ \A i \in DOMAIN X, p \in DOMAIN hits :
       (\A q \in DOMAIN hits : hits[q][2] # i)
         => \/ hits[p][1] > InnerProduct(qv, X[i])
            \/ hits[p][1] = InnerProduct(qv, X[i]) /\ hits[p][2] < i

\* C20: for every query and every top_n, search returns the min(top_n,
\* catalog size) rows of highest inner product, best first, rows of equal
\* score in catalog order.
C20_SearchTopNStable ==
  ~mem.index.none
    => \A q \in Queries, n \in 1..MaxTopN :
         \E sr \in {NumpyIPIndex_search(mem.index, QueryVector(mem.model_name, q), n,
                                        tieBreak)} :
           ~sr.raised /\ StableTopN(mem.index.X, QueryVector(mem.model_name, q), n, sr.hits)

(***************************************************************************)
(* Requests in flight at the same time (SpecWorkers).                      *)
(***************************************************************************)
\* Tags, tag texts, embeddings and index of m are those of one build.
OneBuild(m) ==
  /\ m.tag_texts = RenderTags(m, m.tags).tag_texts
  /\ ~m.embeddings.none
  /\ m.embeddings.X = _normalize_L2_inplace(_embed_texts(m.model_name, m.tag_texts))
  /\ m.index = [none |-> FALSE, dim |-> Len(m.embeddings.X[1]), X |-> m.embeddings.X]

\* C17: the suggester of a request that is ready to answer never holds
\* tags, tag texts, embeddings and index of different builds, whatever
\* another request rebuilds or persists meanwhile.
C17_NoMixedSnapshot ==
  \A w \in Workers : proc[w].pc = "ready" => OneBuild(proc[w].mem)

\* A rebuild is in flight on the request w.
Rebuilding(w) == proc[w].pc \in {"build", "save_emb", "save_meta"}

\* C18: at most one rebuild is in flight at any time.
C18_OneRebuildInFlight ==
  \A v, w \in Workers : (Rebuilding(v) /\ Rebuilding(w)) => v = w

(***************************************************************************)
(* SpecWindow: requests whose offset is any integer the schema admits,     *)
(* negative ones and ones past the end of the pool among them, or whose    *)
(* cursor is the next_cursor of the last response.                         *)
(***************************************************************************)
MaxStart == 3

WindowRequests ==
  {[SuggestRequest(TextTech) EXCEPT !.limit = n, !.offset = o, !.cursor = c] :
     n \in 1..MaxLimit, o \in (0 - MaxStart)..MaxStart, c \in CursorsNow}

InitWindow == InitService({SettingsMini}, {"catalog"}, Catalogs) /\ cur = IdleCur

NextWindow ==
  \E r \in WindowRequests, gw \in {GwOk}, up \in {TRUE} : SuggestTags(r, gw, up)

SpecWindow == InitWindow /\ [][NextWindow]_vars

\* The position a request carries: the one of its cursor when that decodes,
\* otherwise its offset.
Position(r) ==
  StartPos(r, IF r.cursor # <<>> THEN _decode_cursor(r.cursor) ELSE NoCursor)

\* The items of pool at the indices i (from 0) with p <= i < min(p + n, total).
IndexWindow(pool, p, n) ==
  [j \in 1..Max2(0, Min2(p + n, Len(pool)) - Max2(p, 0)) |-> pool[Max2(p, 0) + j]]

\* C21: for every start position a request carries and every limit >= 1,
\* the page is exactly the pool items at the indices i with
\* position <= i < min(position + limit, total), it has at most limit items,
\* meta.start is the position and meta.total the length of the pool.
C21_PageIsIndexWindow ==
  (Served /\ resp.status = "ok")
    => /\ resp.page = IndexWindow(resp.pool, Position(req.r), req.r.limit)
       /\ Len(resp.page) <= req.r.limit
       /\ resp.meta.start = Position(req.r)
       /\ resp.meta.total = Len(resp.pool)

(***************************************************************************)
(* SpecScores: requests that vary the threshold and the reranker override, *)
(* with the override that turns the reranker on among them, on servers     *)
(* whose default enables the cross-encoder and on servers whose default    *)
(* does not.                                                               *)
(***************************************************************************)
TextChipTech == <<"chip", Blank, "tech">>

ScoreMinScores == {2000, 2500}
ScoreRerankers == {NoneStr, "True", "False"}

ScoreRequests ==
  {[SuggestRequest(t) EXCEPT !.min_score = m, !.widen = w, !.use_reranker = u] :
     t \in {TextTech, TextMatch, TextChipTech}, m \in ScoreMinScores, w \in BOOLEAN,
     u \in ScoreRerankers}

InitScores == InitService(SettingsSet, TieBreaks, Catalogs) /\ cur = IdleCur

NextScores ==
  \E r \in ScoreRequests, gw \in {GwOk}, up \in {TRUE} : SuggestTags(r, gw, up)

SpecScores == InitScores /\ [][NextScores]_vars

\* C22: no candidate of a pool the resolver produced without reranking has
\* a score below the effective threshold, which is min_score, or min_score
\* relaxed by 0.15 when widen is set.
C22_PoolAtOrAboveThreshold ==
  (Served /\ resp.source = "computed" /\ resp.meta.reranker = NoneStr)
    => \A i \in DOMAIN resp.pool :
         resp.pool[i].score >= EffectiveMin(req.r.min_score, req.r.widen)

\* The pool the last request gets when the reranker is switched off: the
\* shortlist with its hybrid scores.
HybridPool ==
  suggestTags(mem, disk, csv, settings, tieBreak, cache,
              [req.r EXCEPT !.use_reranker = "False"], req.gw, req.up).pool

\* The mean of the scores of a non-empty shortlist is below 0.6.
LowMean(items) == items # <<>> /\ SumScores(items) < RERANK_BELOW * Len(items)

\* The cross-encoder rescored and sorted the shortlist of the last request.
RerankRan ==
  /\ Served /\ resp.status = "ok"
  /\ UseCrossEncoder(settings, req.r.use_reranker)
  /\ mem.cross_encoder
  /\ LowMean(HybridPool)

NonIncreasing(pool) ==
  \A i, j \in DOMAIN pool : i < j => pool[i].score >= pool[j].score

\* C23: when reranking runs, the pool after it holds exactly the candidates
\* of the pool before it (same slugs, same count), each with its reranker
\* score, in non-increasing order of that score.
C23_RerankKeepsMembership ==
  RerankRan
    => /\ Len(resp.pool) = Len(HybridPool)
       /\ \A i \in DOMAIN HybridPool :
            \E j \in DOMAIN resp.pool :
              /\ resp.pool[j] = [HybridPool[i] EXCEPT !.score = resp.pool[j].score]
              /\ resp.pool[j].score =
                   CrossEncoderPredict(_preprocess_text(req.r.text),
                                       _item_text(HybridPool[i]))
       /\ Cardinality(Slugs(resp.pool)) = Len(resp.pool)
       /\ NonIncreasing(resp.pool)

C23_Witness ==
  /\ RerankRan
  /\ Len(resp.pool) = 3
  /\ resp.pool[1].slug # HybridPool[1].slug
  /\ resp.pool[1].score > resp.pool[2].score

\* The items with the scores the cross-encoder gives them for a query, best
\* first.
Reranked(query_text, items) ==
  SortByScoreDesc([i \in DOMAIN items |->
                     [items[i] EXCEPT !.score =
                        CrossEncoderPredict(query_text, _item_text(items[i]))]] \o <<>>)

\* C24: reranking is applied to a resolution exactly when it is enabled (by
\* the request's use_reranker when given, otherwise by the server default)
\* and the shortlist is non-empty with a mean hybrid score below 0.6; in
\* every other case the hybrid scores and their order are returned as they
\* are, and meta.reranker names a reranker only when reranking was enabled.
C24_RerankExactlyWhenEnabled ==
  (Served /\ resp.status = "ok")
    => /\ IF UseCrossEncoder(settings, req.r.use_reranker) /\ LowMean(HybridPool)
          THEN resp.pool = Reranked(_preprocess_text(req.r.text), HybridPool)
          ELSE resp.pool = HybridPool
       /\ resp.meta.reranker # NoneStr => UseCrossEncoder(settings, req.r.use_reranker)

(***************************************************************************)
(* SpecDeploy: the server is restarted with another EMBEDDING_MODEL while  *)
(* the persisted files stay where they are, and a process can end between  *)
(* the two writes of _save_cache.  Each request gets a TagService of its   *)
(* own, whose suggester loads the persisted snapshot or builds one, and is *)
(* then answered by suggestTags on that service.                           *)
(***************************************************************************)
DeployGateways == {GwOk, [q |-> TRUE, b |-> FALSE]}
DeployRequests == {SuggestRequest(TextTech), SuggestRequest(TextChip)}

\* The server is restarted with other settings.
Redeploy(s) ==
  /\ s # settings
  /\ settings' = s
  /\ good' = [mem |-> 0, disk |-> FALSE]
  /\ op' = "redeploy"
  /\ rel' = NoRel
  /\ UNCHANGED <<tieBreak, csv, disk, mem, cache, req, resp, sess, cur, proc>>

\* A service is constructed, finds no valid persisted snapshot, builds one,
\* and its process ends after np.save of the embeddings, before the metadata
\* file is opened.
InterruptedSave ==
  /\ ~_cache_is_valid(_load_models(NewSuggester(settings), settings), disk, csv)
  /\ \E built \in {_build_from_csv(_load_models(NewSuggester(settings), settings),
                                   csv, TRUE)} :
       disk' = [disk EXCEPT !.emb = _save_cache(built, disk).disk.emb]
  /\ good' = [mem |-> 0, disk |-> FALSE]
  /\ op' = "interrupted"
  /\ rel' = NoRel
  /\ UNCHANGED <<settings, tieBreak, csv, mem, cache, req, resp, sess, cur, proc>>

\* The answer to a request whose service could not be constructed.
NoService(l) ==
  [status |-> "no_service", page |-> <<>>, meta |-> NoMeta, key |-> <<>>, pool |-> <<>>,
   source |-> "none", stored |-> FALSE, mem |-> l.mem, disk |-> l.disk, cache |-> cache]

\* POST /suggest on a service of its own: TagService() and then suggestTags.
DeployedRequest(r, gw, up) ==
  \E l \in {load(NewSuggester(settings), disk, csv, settings, FALSE, gw.b)} :
    \E res \in {IF l.raised THEN NoService(l)
                ELSE suggestTags(l.mem, l.disk, csv, settings, tieBreak, cache, r, gw, up)} :
      /\ mem' = res.mem
      /\ disk' = res.disk
      /\ cache' = res.cache
      /\ good' = [mem |-> 0, disk |-> FALSE]
      /\ op' = "suggestTags"
      /\ req' = [r |-> r, gw |-> gw, up |-> up]
      /\ resp' = Response(res)
      /\ sess' = NoSess
      /\ rel' = NoRel
      /\ UNCHANGED <<settings, tieBreak, csv, cur, proc>>

InitDeploy == InitService(SettingsSet, {"catalog"}, {CatalogA}) /\ cur = IdleCur

NextDeploy ==
  \/ \E s \in SettingsSet : Redeploy(s)
  \/ InterruptedSave
  \/ \E cat \in Catalogs : ReplaceCsv(cat)
  \/ \E r \in DeployRequests, gw \in DeployGateways, up \in {TRUE} : DeployedRequest(r, gw, up)

SpecDeploy == InitDeploy /\ [][NextDeploy]_vars

\* The suggester does not hold a snapshot of the dimensionality of qv.
NeedsReload(m, qv) == m.embeddings.none \/ Len(m.embeddings.X[1]) # Len(qv)

\* C25: when the embedded query's dimensionality differs from the in-memory
\* snapshot's, or no snapshot is loaded, suggest reloads the index, and the
\* similarity search is only run with a query vector whose dimensionality is
\* that of the index it searches, also when the build of that reload fails.
C25_SearchDimensionsAgree ==
  [][(op' = "suggestTags" /\ resp'.status # "no_service" /\ req'.r.text # <<>>
        /\ req'.gw.q)
     => \E l \in {load(NewSuggester(settings), disk, csv, settings, FALSE, req'.gw.b)},
           qv \in {QueryVector(settings.EMBEDDING_MODEL, req'.r.text)} :
          /\ NeedsReload(l.mem, qv)
               => \E rl \in {reload(l.mem, l.disk, csv, settings, req'.gw.b)} :
                    mem' = rl.mem /\ disk' = rl.disk
          /\ ~mem'.embeddings.none
               => ~mem'.index.none /\ mem'.index.dim = Len(qv)]_vars

\* The rows of the embeddings or of the index (none when there are none).
Rows(e) == IF e.none THEN <<>> ELSE e.X

\* C26: after any sequence of loads, reloads, catalog edits and failed
\* builds, the in-memory snapshot and the persisted snapshot that load
\* accepts as valid each have as many tags as tag texts, embedding rows and
\* index entries, every embedding has the snapshot's dimensionality, and
\* every tag has a non-empty slug and name.
C26_SnapshotsAligned ==
  /\ Len(mem.tags) = Len(mem.tag_texts)
  /\ Len(mem.tags) = Len(Rows(mem.embeddings))
  /\ Len(mem.tags) = Len(Rows(mem.index))
  /\ \A i \in DOMAIN Rows(mem.embeddings) : Len(mem.embeddings.X[i]) = mem.index.dim
  /\ \A i \in DOMAIN mem.tags : mem.tags[i].slug # "" /\ mem.tags[i].name # ""
  /\ _cache_is_valid(_load_models(NewSuggester(settings), settings), disk, csv)
       => /\ Len(disk.meta.tags) = Len(disk.meta.tag_texts)
          /\ Len(disk.meta.tags) = Len(Rows(disk.emb))
          /\ \A i \in DOMAIN Rows(disk.emb) : Len(disk.emb.X[i]) = disk.meta.dim
          /\ \A i \in DOMAIN disk.meta.tags :
               disk.meta.tags[i].slug # "" /\ disk.meta.tags[i].name # ""

(***************************************************************************)
(* Requests that share a key (Spec).                                       *)
(***************************************************************************)
\* Every candidate that passes the threshold of a request, as the resolver
\* ranks them on the index at hand.
Candidates(r, gw) ==
  suggest(mem, disk, csv, settings, tieBreak, r.text, TOPK_CANDIDATES,
          EffectiveMin(r.min_score, r.widen), r.use_reranker, gw).items

\* C27: the candidates served to a request depend only on its own
\* parameters and the index: the pool of a request with an empty exclude set
\* holds every candidate that passes its threshold, whatever exclude sets
\* the earlier requests that computed the same key carried.
C27_OwnParametersOnly ==
  (Served /\ resp.status = "ok" /\ req.r.exclude_slugs = {})
    => /\ resp.pool = Candidates(req.r, req.gw)
       /\ resp.page = PySlice(Candidates(req.r, req.gw), resp.meta.start,
                              resp.meta.start + req.r.limit)

\* A session that a request with an exclude set started (its pool lacks
\* tech) is continued under the same key by a request without one.
C27_Witness ==
  /\ Served /\ resp.status = "ok"
  /\ sess.active /\ sess.next > sess.n /\ resp.key = sess.key
  /\ "tech" \notin Slugs(sess.pool0)
  /\ req.r.exclude_slugs = {}
  /\ "tech" \in Slugs(resp.pool)

(***************************************************************************)
(* SpecPin: requests that carry the next_cursor of the last response       *)
(* together with a text, a threshold or a widen flag of their own.         *)
(***************************************************************************)
PinRequests ==
  {[SuggestRequest(t) EXCEPT !.limit = n, !.min_score = m, !.widen = w, !.cursor = c] :
     t \in {TextTech, TextMatch, TextChip}, n \in 1..MaxLimit, m \in ScoreMinScores,
     w \in BOOLEAN, c \in {<<>>, resp.meta.next_cursor}}

InitPin == InitService({SettingsMini}, {"catalog"}, {CatalogB}) /\ cur = IdleCur

NextPin ==
  \E r \in PinRequests, gw \in {GwOk}, up \in {TRUE} : SuggestTags(r, gw, up)

SpecPin == InitPin /\ [][NextPin]_vars

C29_PoolSortedByScore ==
  (Served /\ resp.status = "ok") => (NonIncreasing(resp.pool) /\ NonIncreasing(resp.page))

(***************************************************************************)
(* SpecLive: one request at a time through the awaits of suggestTags.  The *)
(* position of the request is proc[Handler].pc: "idle", "cache_get" (the   *)
(* read is awaited), "compute", "cache_set", "page".  req.up says whether  *)
(* the cache backend answers while the request runs; when it does not, the *)
(* client gives the read up after socket_timeout (3 seconds, init_cache)   *)
(* and raises.  While the request runs resp.status is "pending" and resp   *)
(* holds what the method has worked out so far.                            *)
(***************************************************************************)
Handler == "w1"

LiveRequests ==
  {[SuggestRequest(t) EXCEPT !.limit = n, !.offset = o, !.exclude_slugs = e] :
     t \in {TextTech, TextEmpty}, n \in 1..MaxLimit, o \in 0..MaxOffset, e \in Excludes}

\* The frame of the request in flight.
LiveFrame ==
  RequestFrame(mem, req.r,
               IF req.r.cursor # <<>> THEN _decode_cursor(req.r.cursor) ELSE NoCursor,
               compute_text_hash(req.r.text))

LiveUnchanged == UNCHANGED <<settings, tieBreak, csv, good, sess, cur, rel>>

\* The request arrives; an empty text is answered at once.
Receive(r, up) ==
  /\ proc[Handler].pc = "idle"
  /\ req' = [r |-> r, gw |-> GwOk, up |-> up]
  /\ resp' = IF r.text = <<>>
             THEN Response(ReturnsNothing("no_content", mem, disk, cache))
             ELSE [NoResp EXCEPT !.status = "pending"]
  /\ proc' = [proc EXCEPT ![Handler].pc = IF r.text = <<>> THEN "idle" ELSE "cache_get"]
  /\ op' = IF r.text = <<>> THEN "suggestTags" ELSE "received"
  /\ UNCHANGED <<mem, disk, cache>>
  /\ LiveUnchanged

\* await cache_get_json: the backend answers.
CacheGetAnswer ==
  /\ proc[Handler].pc = "cache_get"
  /\ req.up
  /\ \E got \in {cache_get_json(cache, LiveFrame.cache_key, TRUE)} :
       /\ resp' = IF got.found
                  THEN [resp EXCEPT !.pool = got.value, !.source = "hit"]
                  ELSE resp
       /\ proc' = [proc EXCEPT ![Handler].pc = IF got.found THEN "page" ELSE "compute"]
  /\ op' = "cache_get"
  /\ UNCHANGED <<req, mem, disk, cache>>
  /\ LiveUnchanged

\* A read that is never given up: the request stays where it is.
CacheGetNoTimeout ==
  /\ proc[Handler].pc = "cache_get"
  /\ ~req.up
  /\ UNCHANGED vars

\* await cache_get_json: the backend does not answer; after socket_timeout
\* the read raises, the exception is logged and the pool stays None.
CacheGetTimeout ==
  /\ proc[Handler].pc = "cache_get"
  /\ ~req.up
  /\ proc' = [proc EXCEPT ![Handler].pc = "compute"]
  /\ op' = "cache_get"
  /\ UNCHANGED <<req, resp, mem, disk, cache>>
  /\ LiveUnchanged

\* "Compute once if no cached pool": suggest and the exclude filter; a
\* resolver that raises ends the request with ([], {}).
Compute ==
  /\ proc[Handler].pc = "compute"
  /\ \E sg \in {suggest(mem, disk, csv, settings, tieBreak, req.r.text, TOPK_CANDIDATES,
                        EffectiveMin(req.r.min_score, req.r.widen), req.r.use_reranker,
                        req.gw)} :
       /\ resp' = IF sg.raised
                  THEN Response(ReturnsNothing("raised", sg.mem, sg.disk, cache))
                  ELSE [resp EXCEPT !.pool = ExcludeFilter(sg.items, req.r.exclude_slugs),
                                    !.source = "computed",
                                    !.meta.reranker = sg.meta.reranker,
                                    !.meta.count = sg.meta.count]
       /\ mem' = sg.mem
       /\ disk' = sg.disk
       /\ proc' = [proc EXCEPT ![Handler].pc = IF sg.raised THEN "idle" ELSE "cache_set"]
       /\ op' = IF sg.raised THEN "suggestTags" ELSE "compute"
  /\ UNCHANGED <<req, cache>>
  /\ LiveUnchanged

\* await cache_set_json(..., ex = ...): the call raises, at once for the
\* keyword or after socket_timeout; the exception is logged.
CacheSet ==
  /\ proc[Handler].pc = "cache_set"
  /\ \E set \in {cache_set_json(cache, LiveFrame.cache_key, resp.pool, "ex",
                                CACHE_TTL_SECONDS, req.up)} :
       /\ cache' = set.cache
       /\ resp' = [resp EXCEPT !.stored = ~set.raised]
  /\ proc' = [proc EXCEPT ![Handler].pc = "page"]
  /\ op' = "cache_set"
  /\ UNCHANGED <<req, mem, disk>>
  /\ LiveUnchanged

\* "Page results": the response is returned.
Page ==
  /\ proc[Handler].pc = "page"
  /\ resp' = Response(PageResults(LiveFrame, resp.pool,
                                  Min2(Len(resp.pool), LiveFrame.start_pos + LiveFrame.k),
                                  resp.source, resp.stored, resp.meta.reranker,
                                  resp.meta.count, mem, disk, cache))
  /\ proc' = [proc EXCEPT ![Handler].pc = "idle"]
  /\ op' = "suggestTags"
  /\ UNCHANGED <<req, mem, disk, cache>>
  /\ LiveUnchanged

InitLive == InitService({SettingsMini}, {"catalog"}, Catalogs) /\ cur = IdleCur

NextLive ==
  \/ \E r \in LiveRequests, up \in BOOLEAN : Receive(r, up)
  \/ CacheGetAnswer
  \/ CacheGetTimeout
  \/ Compute
  \/ CacheSet
  \/ Page

\* The position of the request moves from p to one of Q.
Moves(p, Q) ==
  /\ proc[Handler].pc = p
  /\ \E q \in Q : proc' = [proc EXCEPT ![Handler].pc = q]

\* The event loop runs every step that is ready: an awaited read ends with
\* the answer or, after socket_timeout, with the exception; the write
\* returns or raises; the resolver and the paging are straight-line code
\* that leaves its position.
FairLive ==
  /\ WF_vars(CacheGetAnswer)
  /\ WF_vars(CacheGetTimeout)
  /\ WF_vars(CacheSet)
  /\ WF_proc(Moves("compute", {"cache_set", "idle"}))
  /\ WF_proc(Moves("page", {"idle"}))

SpecLive == InitLive /\ [][NextLive]_vars /\ FairLive

\* The request in flight, and the request answered.
InFlight == proc[Handler].pc # "idle"
Answered == proc[Handler].pc = "idle" /\ op = "suggestTags"

\* C30: every suggestTags request eventually returns a response, also when
\* the cache backend never answers: the read or write that times out is
\* given up and the request is answered as on the no-cache path.
C30_RequestsReturn ==
  /\ InFlight ~> Answered
  /\ [](Answered
          => resp = Response(suggestTags(mem, disk, csv, settings, tieBreak, {},
                                         req.r, req.gw, TRUE)))

C30_Witness ==
  /\ Answered
  /\ ~req.up
  /\ resp.status = "ok"
  /\ resp.source = "computed"
  /\ resp.page # <<>>

====
